---- MODULE Spec2Model ----
(***************************************************************************)
(* CYD LED Matrix Retro Clock: the logical framebuffer, the 7-segment      *)
(* glyphs, the clock composer (updateClockLogic / drawFrame), the main     *)
(* loop and the display geometry (computeRenderPitch / renderFBToTFT).     *)
(***************************************************************************)
EXTENDS Integers, Sequences, FiniteSets, TLC

\* ---------------------------------------------------------------- config.h
LED_MATRIX_W == 64
LED_MATRIX_H == 32
DEFAULT_LED_DIAMETER == 5
DEFAULT_LED_GAP == 0
STATUS_BAR_H == 50
MORPH_STEPS == 20

\* ------------------------------------------------------- layout constants
DIGIT_W == 9
DIGIT_H == LED_MATRIX_H
COLON_W == 2
DIGIT_GAP == 1

\* The CYD panel after tft.setRotation(1): 320 x 240.
TFT_W == 320
TFT_H == 240

\* ------------------------------------------------------------------ bounds
\* Number of seconds the wall clock may advance past ClockStart.
ClockSpan == 2
\* Largest quotient display size / matrix size explored by the geometry runs.
MaxUnitsW == 3
MaxUnitsH == 3
\* Largest requested LED diameter / gap explored by the geometry runs.
MaxReqDiameter == 4
MaxReqGap == 4
\* How far outside the grid the framebuffer runs probe.
FbProbe == 1
\* How far past the grid edges the glyph runs place a glyph.
GlyphShift == 2

\* ----------------------------------------------------------------- helpers
min(a, b) == IF a < b THEN a ELSE b

Pow2(n) == 2 ^ n

\* (v >> k) & 1 on a non-negative integer
Bit(v, k) == (v \div Pow2(k)) % 2

\* C integer division (truncation toward zero); the divisor is positive
CDiv(a, b) == IF a >= 0 THEN a \div b ELSE -((-a) \div b)

\* (uint8_t) conversion
U8(v) == v % 256

\* Arduino constrain(amt, low, high)
constrain(amt, low, high) == IF amt < low THEN low ELSE IF amt > high THEN high ELSE amt

\* lroundf of the rational num/den (den > 0): nearest integer, halves away
\* from zero
lroundf(num, den) ==
  IF num >= 0 THEN (2 * num + den) \div (2 * den)
  ELSE -((2 * (-num) + den) \div (2 * den))

\* -------------------------------------------------------------- characters
\* chars are modelled by their ASCII codes
CH0 == 48
CH9 == 57
DASH == 45

\* ------------------------------------------------------------- framebuffer
Rows == 0 .. (LED_MATRIX_H - 1)
Cols == 0 .. (LED_MATRIX_W - 1)

\* the cells of a grid renderFBToTFT does not skip (if (!v) continue)
LitCells(f) == {c \in Cols \X Rows : f[c[2]][c[1]] # 0}

\* fbClear(v): memset of the whole grid
fbClear(v) == [y \in Rows |-> [x \in Cols |-> v]]

\* fbSet with the lower bounds tested by <= : column 0 and row 0 are dropped
fbSet_OffByOne(f, x, y, v) ==
  IF x <= 0 \/ y <= 0 \/ x >= LED_MATRIX_W \/ y >= LED_MATRIX_H THEN f
  ELSE [f EXCEPT ![y][x] = v]

\* fbSet(x, y, v) applied to the grid f
fbSet(f, x, y, v) ==
  IF x < 0 \/ y < 0 \/ x >= LED_MATRIX_W \/ y >= LED_MATRIX_H THEN f
  ELSE [f EXCEPT ![y][x] = v]

\* fbGet(x, y) on the grid f
fbGet(f, x, y) ==
  IF x < 0 \/ y < 0 \/ x >= LED_MATRIX_W \/ y >= LED_MATRIX_H THEN 0
  ELSE f[y][x]

\* a grid has one row per matrix row; testing it makes TLC evaluate the grid
\* built so far before a drawing loop continues on it
IsGrid(g) == DOMAIN g = Rows

\* ------------------------------------------------------------------ glyphs
\* switch (d) of makeDigit7Seg with case 1 lighting the segments of case 8
SegmentsOf_OneAsEight(d) ==
  CASE d = 0 -> {0, 1, 2, 3, 4, 5}
    [] d = 1 -> {0, 1, 2, 3, 4, 5, 6}
    [] d = 2 -> {0, 1, 6, 4, 3}
    [] d = 3 -> {0, 1, 6, 2, 3}
    [] d = 4 -> {5, 6, 1, 2}
    [] d = 5 -> {0, 5, 6, 2, 3}
    [] d = 6 -> {0, 5, 6, 4, 2, 3}
    [] d = 7 -> {0, 1, 2}
    [] d = 8 -> {0, 1, 2, 3, 4, 5, 6}
    [] d = 9 -> {0, 1, 2, 3, 5, 6}
    [] OTHER -> {}

\* switch (d) of makeDigit7Seg: the lit segments, a=0 .. g=6
SegmentsOf(d) ==
  CASE d = 0 -> {0, 1, 2, 3, 4, 5}
    [] d = 1 -> {1, 2}
    [] d = 2 -> {0, 1, 6, 4, 3}
    [] d = 3 -> {0, 1, 6, 2, 3}
    [] d = 4 -> {5, 6, 1, 2}
    [] d = 5 -> {0, 5, 6, 2, 3}
    [] d = 6 -> {0, 5, 6, 4, 2, 3}
    [] d = 7 -> {0, 1, 2}
    [] d = 8 -> {0, 1, 2, 3, 4, 5, 6}
    [] d = 9 -> {0, 1, 2, 3, 5, 6}
    [] OTHER -> {}

\* the pixels one segment loop passes to setPx
SegmentRect(s) ==
  LET padX == 0
      padY == 1
      th == 4
      w == DIGIT_W
      h == DIGIT_H
      midY == h \div 2
  IN CASE s = 0 -> (padX .. (w - padX - 1)) \X (padY .. (padY + th - 1))
       [] s = 3 -> (padX .. (w - padX - 1)) \X ((h - padY - th) .. (h - padY - 1))
       [] s = 6 -> (padX .. (w - padX - 1)) \X ((midY - th \div 2) .. (midY - th \div 2 + th - 1))
       [] s = 5 -> (padX .. (padX + th - 1)) \X (padY .. (midY - 1))
       [] s = 1 -> ((w - padX - th) .. (w - padX - 1)) \X (padY .. (midY - 1))
       [] s = 4 -> (padX .. (padX + th - 1)) \X (midY .. (h - padY - 1))
       [] s = 2 -> ((w - padX - th) .. (w - padX - 1)) \X (midY .. (h - padY - 1))

\* rows[y] after or-ing the bits (1u << (15-x)) of the columns in xs
RECURSIVE RowBits(_)
RowBits(xs) ==
  IF xs = {} THEN 0
  ELSE LET x == CHOOSE c \in xs : TRUE
       IN Pow2(15 - x) + RowBits(xs \ {x})

\* a Bitmap from the pixels handed to a setPx that is bounded by width w
BitmapOf(px, w) ==
  [y \in 0 .. (DIGIT_H - 1) |->
     RowBits({x \in 0 .. (w - 1) : <<x, y>> \in px})]

\* makeDigit7Seg(d)
makeDigit7Seg(d) ==
  BitmapOf(UNION {SegmentRect(s) : s \in SegmentsOf(d)}, DIGIT_W)

\* initBitmaps
DIGITS == [i \in 0 .. 9 |-> makeDigit7Seg(i)]

COLON ==
  BitmapOf(((0 .. (COLON_W - 1)) \X (10 .. 12)) \cup ((0 .. (COLON_W - 1)) \X (19 .. 21)),
           COLON_W)

\* bool on = (bm.rows[y] >> (15-x)) & 0x1
PixelOn(bm, x, y) == Bit(bm[y], 15 - x) = 1

\* the on-pixels among the pixel indices lo..hi, in row-major scan order
RECURSIVE ScanPixels(_, _, _, _)
ScanPixels(bm, w, lo, hi) ==
  IF lo > hi THEN <<>>
  ELSE IF lo = hi
       THEN IF PixelOn(bm, lo % w, lo \div w) THEN << <<lo % w, lo \div w>> >> ELSE <<>>
       ELSE LET mid == (lo + hi) \div 2
            IN ScanPixels(bm, w, lo, mid) \o ScanPixels(bm, w, mid + 1, hi)

\* buildPixelsFromBitmap: out[0..min(n, maxOut)-1], the first maxOut on-pixels
buildPixelsFromBitmap(bm, w, maxOut) ==
  LET all == ScanPixels(bm, w, 0, DIGIT_H * w - 1)
  IN IF Len(all) > maxOut THEN SubSeq(all, 1, maxOut) ELSE all

\* ----------------------------------------------------------------- drawing
\* drawBitmapSolid: the y/x loops over the pixel indices lo..hi in loop order
RECURSIVE SolidRange(_, _, _, _, _, _, _, _)
SolidRange(f, bm, x0, y0, w, intensity, lo, hi) ==
  IF lo > hi THEN f
  ELSE IF lo = hi
       THEN LET x == lo % w
                y == lo \div w
                yScaled == (y * LED_MATRIX_H) \div DIGIT_H
            IN IF PixelOn(bm, x, y) THEN fbSet(f, x0 + x, y0 + yScaled, intensity) ELSE f
       ELSE LET mid == (lo + hi) \div 2
                done == SolidRange(f, bm, x0, y0, w, intensity, lo, mid)
            IN IF IsGrid(done)
               THEN SolidRange(done, bm, x0, y0, w, intensity, mid + 1, hi)
               ELSE done

drawBitmapSolid(f, bm, x0, y0, w, intensity) ==
  IF IsGrid(f) THEN SolidRange(f, bm, x0, y0, w, intensity, 0, DIGIT_H * w - 1) ELSE f

\* t = step / MORPH_STEPS clamped to [0, 1], as the numerator over MORPH_STEPS
SpawnT(step) == IF step < 0 THEN 0 ELSE IF step > MORPH_STEPS THEN MORPH_STEPS ELSE step

\* alpha = (uint8_t)(255 * t)
SpawnAlpha(step) == U8((255 * SpawnT(step)) \div MORPH_STEPS)

\* te = 1 - (1 - t)^2, as the numerator over MORPH_STEPS^2
SpawnEase(step) ==
  MORPH_STEPS * MORPH_STEPS - (MORPH_STEPS - SpawnT(step)) * (MORPH_STEPS - SpawnT(step))

\* the same with the spawn origin s = extent + 1, beyond the glyph box
SpawnCoord_OriginOutside(target, extent, step) ==
  lroundf((extent + 1) * MORPH_STEPS * MORPH_STEPS
            + (target - (extent + 1)) * SpawnEase(step),
          MORPH_STEPS * MORPH_STEPS)

\* lroundf(s + (target - s) * te) with s = (extent - 1) * 0.5
SpawnCoord(target, extent, step) ==
  lroundf((extent - 1) * MORPH_STEPS * MORPH_STEPS
            + (2 * target - (extent - 1)) * SpawnEase(step),
          2 * MORPH_STEPS * MORPH_STEPS)

\* drawSpawnMorphToTarget: the loop over toPts[lo..hi] in loop order
RECURSIVE SpawnRange(_, _, _, _, _, _, _, _)
SpawnRange(f, toPts, step, x0, y0, w, lo, hi) ==
  IF lo > hi THEN f
  ELSE IF lo = hi
       THEN LET x == SpawnCoord(toPts[lo][1], w, step)
                y == SpawnCoord(toPts[lo][2], DIGIT_H, step)
                yScaled == CDiv(y * LED_MATRIX_H, DIGIT_H)
            IN fbSet(f, x0 + x, y0 + yScaled, SpawnAlpha(step))
       ELSE LET mid == (lo + hi) \div 2
                done == SpawnRange(f, toPts, step, x0, y0, w, lo, mid)
            IN IF IsGrid(done)
               THEN SpawnRange(done, toPts, step, x0, y0, w, mid + 1, hi)
               ELSE done

drawSpawnMorphToTarget(f, toBm, step, x0, y0, w) ==
  LET toPts == buildPixelsFromBitmap(toBm, w, 420)
  IN IF IsGrid(f) THEN SpawnRange(f, toPts, step, x0, y0, w, 1, Len(toPts)) ELSE f

\* val of drawMorph with both glyphs fading in instead of staying at 255
MorphVal_FadeBoth(aon, bon, step) ==
  IF aon /\ ~bon THEN U8(CDiv(255 * (MORPH_STEPS - step), MORPH_STEPS))
  ELSE IF bon THEN U8(CDiv(255 * step, MORPH_STEPS))
  ELSE 0

\* val of drawMorph with the two fades exchanged
MorphVal_Swapped(aon, bon, step) ==
  IF aon /\ bon THEN 255
  ELSE IF aon /\ ~bon THEN U8(CDiv(255 * step, MORPH_STEPS))
  ELSE IF ~aon /\ bon THEN U8(CDiv(255 * (MORPH_STEPS - step), MORPH_STEPS))
  ELSE 0

\* val of drawMorph for one pixel
MorphVal(aon, bon, step) ==
  IF aon /\ bon THEN 255
  ELSE IF aon /\ ~bon THEN U8(CDiv(255 * (MORPH_STEPS - step), MORPH_STEPS))
  ELSE IF ~aon /\ bon THEN U8(CDiv(255 * step, MORPH_STEPS))
  ELSE 0

\* drawMorph: the y/x loops over the pixel indices lo..hi in loop order
RECURSIVE MorphRange(_, _, _, _, _, _, _, _, _)
MorphRange(f, a, b, step, x0, y0, w, lo, hi) ==
  IF lo > hi THEN f
  ELSE IF lo = hi
       THEN LET x == lo % w
                y == lo \div w
                val == MorphVal(PixelOn(a, x, y), PixelOn(b, x, y), step)
                yScaled == (y * LED_MATRIX_H) \div DIGIT_H
            IN IF val = 0 THEN f ELSE fbSet(f, x0 + x, y0 + yScaled, val)
       ELSE LET mid == (lo + hi) \div 2
                done == MorphRange(f, a, b, step, x0, y0, w, lo, mid)
            IN IF IsGrid(done)
               THEN MorphRange(done, a, b, step, x0, y0, w, mid + 1, hi)
               ELSE done

\* drawMorph(a, b, step, x0, y0, w) on the grid f
drawMorph(f, a, b, step, x0, y0, w) ==
  IF IsGrid(f) THEN MorphRange(f, a, b, step, x0, y0, w, 0, DIGIT_H * w - 1) ELSE f

\* fbSet calls applied in order: plots[lo..hi], each <<x, y, v>>
RECURSIVE PlotRange(_, _, _, _)
PlotRange(f, plots, lo, hi) ==
  IF lo > hi THEN f
  ELSE IF lo = hi
       THEN fbSet(f, plots[lo][1], plots[lo][2], plots[lo][3])
       ELSE LET mid == (lo + hi) \div 2
                done == PlotRange(f, plots, lo, mid)
            IN IF IsGrid(done) THEN PlotRange(done, plots, mid + 1, hi) ELSE done

\* dist2 of two points
dist2(a, b) ==
  LET dx == a[1] - b[1]
      dy == a[2] - b[2]
  IN dx * dx + dy * dy

\* the inner j loop of the matching without the test of toUsed[j]
RECURSIVE NearestUnused_IgnoreUsed(_, _, _, _, _)
NearestUnused_IgnoreUsed(pt, toPts, toUsed, lo, hi) ==
  IF lo > hi THEN <<1000000000, 0>>
  ELSE IF lo = hi
       THEN <<dist2(pt, toPts[lo]), lo>>
       ELSE LET mid == (lo + hi) \div 2
                l == NearestUnused_IgnoreUsed(pt, toPts, toUsed, lo, mid)
                r == NearestUnused_IgnoreUsed(pt, toPts, toUsed, mid + 1, hi)
            IN IF r[1] < l[1] THEN r ELSE l

\* the inner j loop of the matching taking a later j on equal distance
RECURSIVE NearestUnused_LastOnTie(_, _, _, _, _)
NearestUnused_LastOnTie(pt, toPts, toUsed, lo, hi) ==
  IF lo > hi THEN <<1000000000, 0>>
  ELSE IF lo = hi
       THEN IF lo \in toUsed THEN <<1000000000, 0>>
            ELSE <<dist2(pt, toPts[lo]), lo>>
       ELSE LET mid == (lo + hi) \div 2
                l == NearestUnused_LastOnTie(pt, toPts, toUsed, lo, mid)
                r == NearestUnused_LastOnTie(pt, toPts, toUsed, mid + 1, hi)
            IN IF r[1] <= l[1] /\ r[2] > 0 THEN r ELSE l

\* the inner j loop of the matching over toPts[lo..hi]: <<bestD, bestJ>>, the
\* first unused j of least distance (bestJ = 0 models the initial -1)
RECURSIVE NearestUnused(_, _, _, _, _)
NearestUnused(pt, toPts, toUsed, lo, hi) ==
  IF lo > hi THEN <<1000000000, 0>>
  ELSE IF lo = hi
       THEN IF lo \in toUsed THEN <<1000000000, 0>>
            ELSE LET d == dist2(pt, toPts[lo])
                 IN IF d < 1000000000 THEN <<d, lo>> ELSE <<1000000000, 0>>
       ELSE LET mid == (lo + hi) \div 2
                l == NearestUnused(pt, toPts, toUsed, lo, mid)
                r == NearestUnused(pt, toPts, toUsed, mid + 1, hi)
            IN IF r[1] < l[1] THEN r ELSE l

\* the outer i loop of the matching for i in lo..hi (indices from 1), m being
\* [matchTo, toUsed] so far
RECURSIVE MatchRange(_, _, _, _, _)
MatchRange(m, fromPts, toPts, lo, hi) ==
  IF lo > hi THEN m
  ELSE IF lo = hi
       THEN LET best == NearestUnused(fromPts[lo], toPts, m.toUsed, 1, Len(toPts))
                bestJ == IF best[2] < 1 THEN 1 ELSE best[2]
            IN [matchTo |-> Append(m.matchTo, bestJ), toUsed |-> m.toUsed \cup {bestJ}]
       ELSE LET mid == (lo + hi) \div 2
                done == MatchRange(m, fromPts, toPts, lo, mid)
            IN IF Len(done.matchTo) >= 0
               THEN MatchRange(done, fromPts, toPts, mid + 1, hi)
               ELSE done

\* lroundf(a + (b - a) * t) with float t = step / MORPH_STEPS.  In float
\* arithmetic the result equals the exactly rounded one except at step 17
\* for five (a, b), where a fused multiply-add gives one less
FmaBelow == {<<10, 0>>, <<11, 1>>, <<12, 2>>, <<30, 0>>, <<31, 1>>}
ParticleCoord(a, b, step, fma) ==
  LET exact == lroundf(a * MORPH_STEPS + (b - a) * step, MORPH_STEPS)
  IN IF fma /\ step = 17 /\ <<a, b>> \in FmaBelow THEN exact - 1 ELSE exact

\* (uint8_t)(255 * alpha) with alpha = t
FadeInAlpha(step) == U8((255 * step) \div MORPH_STEPS)

\* (uint8_t)(255 * alpha) with float alpha = 1.0f - t: the float product
\* falls just below the integer at steps 12 and 16
FadeOutAlpha(step) ==
  LET exact == (255 * (MORPH_STEPS - step)) \div MORPH_STEPS
  IN U8(IF step \in {12, 16} THEN exact - 1 ELSE exact)

\* the j loop of the fade-in over toPts[lo..hi] with extra draws left: the
\* unused j it draws, in order
RECURSIVE FadeInRange(_, _, _, _)
FadeInRange(toUsed, lo, hi, extra) ==
  IF lo > hi \/ extra <= 0 THEN <<>>
  ELSE IF lo = hi
       THEN IF lo \in toUsed THEN <<>> ELSE <<lo>>
       ELSE LET mid == (lo + hi) \div 2
                l == FadeInRange(toUsed, lo, mid, extra)
            IN l \o FadeInRange(toUsed, mid + 1, hi, extra - Len(l))

\* the locals of drawParticleMorph (array indices count from 1)
particleLocals(fromBm, toBm, w) ==
  LET fromPts == buildPixelsFromBitmap(fromBm, w, 420)
      toPts == buildPixelsFromBitmap(toBm, w, 420)
      fromAll == Len(ScanPixels(fromBm, w, 0, DIGIT_H * w - 1))
      toAll == Len(ScanPixels(toBm, w, 0, DIGIT_H * w - 1))
      fromN == IF fromAll > 420 THEN 420 ELSE fromAll
      toN == IF toAll > 420 THEN 420 ELSE toAll
      pairs == min(fromN, toN)
      m == MatchRange([matchTo |-> <<>>, toUsed |-> {}], fromPts, toPts, 1, pairs)
  IN [fromPts |-> fromPts, toPts |-> toPts, fromN |-> fromN, toN |-> toN,
      fromAll |-> fromAll, toAll |-> toAll,
      pairs |-> pairs, matchTo |-> m.matchTo, toUsed |-> m.toUsed,
      fadeIn |-> IF toN > fromN THEN FadeInRange(m.toUsed, 1, toN, toN - fromN) ELSE <<>>,
      fadeOut |-> IF fromN > toN THEN [k \in 1 .. (fromN - toN) |-> toN + k] ELSE <<>>]

\* the fbSet calls of drawParticleMorph, in program order
particlePlots(L, step, x0, y0, fma) ==
  [i \in 1 .. L.pairs |->
     LET a == L.fromPts[i]
         b == L.toPts[L.matchTo[i]]
         x == ParticleCoord(a[1], b[1], step, fma)
         y == ParticleCoord(a[2], b[2], step, fma)
     IN <<x0 + x, y0 + CDiv(y * LED_MATRIX_H, DIGIT_H), 255>>]
  \o [k \in 1 .. Len(L.fadeIn) |->
        LET q == L.toPts[L.fadeIn[k]]
        IN <<x0 + q[1], y0 + CDiv(q[2] * LED_MATRIX_H, DIGIT_H), FadeInAlpha(step)>>]
  \o [k \in 1 .. Len(L.fadeOut) |->
        LET q == L.fromPts[L.fadeOut[k]]
        IN <<x0 + q[1], y0 + CDiv(q[2] * LED_MATRIX_H, DIGIT_H), FadeOutAlpha(step)>>]

\* drawParticleMorph on the grid f, L being its locals
drawParticleMorph(f, L, step, x0, y0, fma) ==
  LET plots == particlePlots(L, step, x0, y0, fma)
  IN IF IsGrid(f) THEN PlotRange(f, plots, 1, Len(plots)) ELSE f

\* ------------------------------------------------------------------ layout
\* totalW of drawFrame
totalW == (6 * DIGIT_W) + (2 * COLON_W) + (5 * DIGIT_GAP)

\* x0 of drawFrame
rowX0 == IF CDiv(LED_MATRIX_W - totalW, 2) < 0 THEN 0 ELSE CDiv(LED_MATRIX_W - totalW, 2)

\* the xx arguments with every gap two pixels wide
digitX_DoubleGap(pos) ==
  CASE pos = 0 -> rowX0
    [] pos = 1 -> rowX0 + DIGIT_W + 2 * DIGIT_GAP
    [] pos = 2 -> rowX0 + 2 * DIGIT_W + 2 * DIGIT_GAP + COLON_W + 2 * DIGIT_GAP
    [] pos = 3 -> rowX0 + 3 * DIGIT_W + 4 * DIGIT_GAP + COLON_W + 2 * DIGIT_GAP
    [] pos = 4 -> rowX0 + 4 * DIGIT_W + 4 * DIGIT_GAP + 2 * COLON_W + 4 * DIGIT_GAP
    [] pos = 5 -> rowX0 + 5 * DIGIT_W + 6 * DIGIT_GAP + 2 * COLON_W + 4 * DIGIT_GAP

\* the xx argument of the drawDigit call of position pos (0..5)
digitX(pos) ==
  CASE pos = 0 -> rowX0
    [] pos = 1 -> rowX0 + DIGIT_W + DIGIT_GAP
    [] pos = 2 -> rowX0 + 2 * DIGIT_W + DIGIT_GAP + COLON_W + DIGIT_GAP
    [] pos = 3 -> rowX0 + 3 * DIGIT_W + 2 * DIGIT_GAP + COLON_W + DIGIT_GAP
    [] pos = 4 -> rowX0 + 4 * DIGIT_W + 2 * DIGIT_GAP + 2 * COLON_W + 2 * DIGIT_GAP
    [] pos = 5 -> rowX0 + 5 * DIGIT_W + 3 * DIGIT_GAP + 2 * COLON_W + 2 * DIGIT_GAP

\* the x argument of the two colon draws (k = 0, 1)
colonX(k) ==
  IF k = 0 THEN rowX0 + 2 * DIGIT_W + DIGIT_GAP
  ELSE rowX0 + 4 * DIGIT_W + 2 * DIGIT_GAP + COLON_W + DIGIT_GAP

\* digitIdx lambda of drawFrame
digitIdx(c) == IF c >= CH0 /\ c <= CH9 THEN c - CH0 ELSE 0

\* the test of drawDigit comparing the whole strings instead of one character
UsesSpawn_WholeString(cT, pT, step, pos) == cT # pT /\ step < MORPH_STEPS

\* the branch condition of the drawDigit lambda
UsesSpawn(cT, pT, step, pos) == cT[pos + 1] # pT[pos + 1] /\ step < MORPH_STEPS

\* drawDigit whose static branch draws the previous digit
drawDigit_Previous(f, cT, pT, step, pos, xx) ==
  IF UsesSpawn(cT, pT, step, pos)
  THEN drawSpawnMorphToTarget(f, DIGITS[digitIdx(cT[pos + 1])], step, xx, 0, DIGIT_W)
  ELSE drawBitmapSolid(f, DIGITS[digitIdx(pT[pos + 1])], xx, 0, DIGIT_W, 255)

\* drawDigit blending the previous glyph into the new one while it changes
drawDigit_CrossBlend(f, cT, pT, step, pos, xx) ==
  IF UsesSpawn(cT, pT, step, pos)
  THEN drawMorph(f, DIGITS[digitIdx(pT[pos + 1])], DIGITS[digitIdx(cT[pos + 1])], step, xx, 0,
                 DIGIT_W)
  ELSE drawBitmapSolid(f, DIGITS[digitIdx(cT[pos + 1])], xx, 0, DIGIT_W, 255)

\* drawDigit lambda of drawFrame
drawDigit(f, cT, pT, step, pos, xx) ==
  IF UsesSpawn(cT, pT, step, pos)
  THEN drawSpawnMorphToTarget(f, DIGITS[digitIdx(cT[pos + 1])], step, xx, 0, DIGIT_W)
  ELSE drawBitmapSolid(f, DIGITS[digitIdx(cT[pos + 1])], xx, 0, DIGIT_W, 255)

\* the draw calls of drawFrame, in program order, on the grid f
composeFrame(f, cT, pT, mStep) ==
  LET step == IF mStep > MORPH_STEPS THEN MORPH_STEPS ELSE mStep
      f1 == drawDigit(f, cT, pT, step, 0, digitX(0))
      f2 == drawDigit(f1, cT, pT, step, 1, digitX(1))
      f3 == drawBitmapSolid(f2, COLON, colonX(0), 0, COLON_W, 255)
      f4 == drawDigit(f3, cT, pT, step, 2, digitX(2))
      f5 == drawDigit(f4, cT, pT, step, 3, digitX(3))
      f6 == drawBitmapSolid(f5, COLON, colonX(1), 0, COLON_W, 255)
      f7 == drawDigit(f6, cT, pT, step, 4, digitX(4))
  IN drawDigit(f7, cT, pT, step, 5, digitX(5))

\* ---------------------------------------------------------------- geometry
\* computeRenderPitch dividing the width by the matrix height and the height
\* by the matrix width
computeRenderPitch_SwappedDivisors(w, h, sbh) ==
  LET a == h - sbh
      matrixAreaH == IF a < 1 THEN h ELSE a
      maxPitch == min(CDiv(w, LED_MATRIX_H), CDiv(matrixAreaH, LED_MATRIX_W))
  IN IF maxPitch < 1 THEN 1 ELSE maxPitch

\* computeRenderPitch without the final clamp to 1
computeRenderPitch_NoClamp(w, h, sbh) ==
  LET a == h - sbh
      matrixAreaH == IF a < 1 THEN h ELSE a
  IN min(CDiv(w, LED_MATRIX_W), CDiv(matrixAreaH, LED_MATRIX_H))

\* computeRenderPitch without the fall-back to the full height
computeRenderPitch_NoFallback(w, h, sbh) ==
  LET maxPitch == min(CDiv(w, LED_MATRIX_W), CDiv(h - sbh, LED_MATRIX_H))
  IN IF maxPitch < 1 THEN 1 ELSE maxPitch

\* computeRenderPitch on a w x h display with a status bar of height sbh
computeRenderPitch(w, h, sbh) ==
  LET a == h - sbh
      matrixAreaH == IF a < 1 THEN h ELSE a
      maxPitch == min(CDiv(w, LED_MATRIX_W), CDiv(matrixAreaH, LED_MATRIX_H))
  IN IF maxPitch < 1 THEN 1 ELSE maxPitch

\* gapWanted of renderFBToTFT after its two clamps
renderGapWanted(pitch, ledGap) ==
  LET g0 == IF ledGap < 0 THEN 0 ELSE ledGap
  IN IF g0 > pitch - 1 THEN pitch - 1 ELSE g0

\* dot of renderFBToTFT without the limit to the configured diameter
renderDot_NoMaxDot(pitch, ledDiameter, ledGap) ==
  LET d0 == pitch - renderGapWanted(pitch, ledGap)
  IN IF d0 < 1 THEN 1 ELSE d0

\* dot of renderFBToTFT
renderDot(pitch, ledDiameter, ledGap) ==
  LET d0 == pitch - renderGapWanted(pitch, ledGap)
      maxDot == IF ledDiameter < 1 THEN 1 ELSE ledDiameter
      d1 == IF d0 > maxDot THEN maxDot ELSE d0
  IN IF d1 < 1 THEN 1 ELSE d1

\* gap and inset of renderFBToTFT
renderGap(pitch, dot) == pitch - dot
renderInset(pitch, dot) == CDiv(pitch - dot, 2)

\* -------------------------------------------------------------------- time
\* struct tm of the wall-clock second c (seconds since midnight)
TmOf(c) == [hour |-> (c \div 3600) % 24, min |-> (c \div 60) % 60, sec |-> c % 60]

\* two decimal digits, zero padded
TwoDigits(n) == <<CH0 + ((n \div 10) % 10), CH0 + (n % 10)>>

\* formatTimeHHMMSS: strftime "%H%M%S" or "%I%M%S"
formatTimeHHMMSS(tm, use24h) ==
  LET h12 == IF tm.hour % 12 = 0 THEN 12 ELSE tm.hour % 12
  IN TwoDigits(IF use24h THEN tm.hour ELSE h12) \o TwoDigits(tm.min) \o TwoDigits(tm.sec)

ClockStart == 12 * 3600 + 59 * 60 + 59
MaxClock == ClockStart + ClockSpan

\* ------------------------------------------------------------------- state
VARIABLES
  pc,          \* position of loop(): "handle", "time", "frame", "clear", "draw", "render"
  clock,       \* wall clock, seconds since midnight, as last read
  lastSecond,  \* static uint32_t lastSecond
  prevT,       \* static char prevT[7]
  currT,       \* static char currT[7]
  morphStep,   \* static int morphStep
  fb,          \* static uint8_t fb[LED_MATRIX_H][LED_MATRIX_W]
  cfg,         \* AppConfig cfg: ledDiameter, ledGap, use24h
  fbPitch,     \* static int fbPitch
  useSprite,   \* static bool useSprite
  applied,     \* appliedDot, appliedGap, appliedPitch (uint8_t)
  geom,        \* locals pitch, sprW, sprH, gapWanted, dot, gap, inset of the last renderFBToTFT
  tftW,        \* tft.width()
  tftH,        \* tft.height()
  statusBarH,  \* STATUS_BAR_H of the build
  drawnBy,     \* history: branch taken by drawDigit per position in the last drawFrame
  lastOp,      \* history: the last operation the loop performed
  fbArg,       \* history: arguments of the last fbSet / fbGet call
  fbRet,       \* history: value returned by the last fbGet call
  shadow,      \* history: value last passed to fbSet per in-range cell
  call         \* history: the last glyph drawing call, its arguments and its locals

vars == <<pc, clock, lastSecond, prevT, currT, morphStep, fb, cfg, fbPitch,
          useSprite, applied, geom, tftW, tftH, statusBarH,
          drawnBy, lastOp, fbArg, fbRet, shadow, call>>

clockVars == <<lastSecond, prevT, currT, morphStep>>
renderVars == <<fbPitch, useSprite, applied, geom>>
displayVars == <<tftW, tftH, statusBarH>>
fbHist == <<fbArg, fbRet, shadow, call>>

Positions == 0 .. 5

\* request bodies explored by the clock runs: a member is <<present, value>>;
\* these requests carry the time format only
PostDiameters == {<<FALSE, 0>>}
PostGaps == {<<FALSE, 0>>}
PostUse24h == {<<FALSE, FALSE>>, <<TRUE, FALSE>>, <<TRUE, TRUE>>}

\* coordinates the framebuffer runs pass to fbSet / fbGet
\* (the corners of the grid and up to FbProbe cells beyond each edge)
ProbeXs == ((0 - FbProbe) .. 0) \cup {LED_MATRIX_W - 1} \cup (LED_MATRIX_W .. (LED_MATRIX_W - 1 + FbProbe))
ProbeYs == ((0 - FbProbe) .. 0) \cup {LED_MATRIX_H - 1} \cup (LED_MATRIX_H .. (LED_MATRIX_H - 1 + FbProbe))
ProbeValues == {0, 255}
ProbeCells == (ProbeXs \cap Cols) \X (ProbeYs \cap Rows)

\* no glyph drawing call made yet
NoCall == [op |-> "none"]

\* the placeholder "------"
Dashes == <<DASH, DASH, DASH, DASH, DASH, DASH>>

\* rebuildSprite: useSprite afterwards, created being the result of
\* spr.createSprite
rebuildSprite(pitch, created) ==
  IF LED_MATRIX_W * pitch <= 0 \/ LED_MATRIX_H * pitch <= 0 THEN FALSE ELSE created

\* updateRenderPitch(force)
updateRenderPitch(force, created) ==
  LET pitch == computeRenderPitch(tftW, tftH, statusBarH)
  IN IF ~force /\ pitch = fbPitch /\ useSprite
     THEN UNCHANGED <<fbPitch, useSprite>>
     ELSE /\ fbPitch' = pitch
          /\ useSprite' = rebuildSprite(pitch, created)

\* globals after setup() on a w x h display with status bar sbh, the LED
\* settings d, g found by loadConfig and the result of spr.createSprite
setupGlobals(w, h, sbh, d, g, created) ==
  /\ pc = "handle"
  /\ clock = ClockStart
  /\ lastSecond = 0
  /\ prevT = Dashes
  /\ currT = Dashes
  /\ morphStep = MORPH_STEPS
  /\ fb = fbClear(0)
  /\ cfg = [ledDiameter |-> d, ledGap |-> g, use24h |-> TRUE]
  /\ tftW = w
  /\ tftH = h
  /\ statusBarH = sbh
  /\ fbPitch = computeRenderPitch(w, h, sbh)
  /\ useSprite = rebuildSprite(computeRenderPitch(w, h, sbh), created)
  /\ applied = [dot |-> 0, gap |-> 0, pitch |-> 0]
  /\ geom = [pitch |-> 0, sprW |-> 0, sprH |-> 0, gapWanted |-> 0, dot |-> 0, gap |-> 0,
             inset |-> 0]
  /\ drawnBy = [p \in Positions |-> "none"]
  /\ lastOp = "setup"
  /\ fbArg = <<"none", 0, 0, 0>>
  /\ fbRet = 0
  /\ shadow = [c \in ProbeCells |-> 0]

\* the state after setup(), no glyph drawing call made
InitOn(w, h, sbh, d, g, created) ==
  /\ setupGlobals(w, h, sbh, d, g, created)
  /\ call = NoCall

Init == InitOn(TFT_W, TFT_H, STATUS_BAR_H, DEFAULT_LED_DIAMETER, DEFAULT_LED_GAP, TRUE)

\* ------------------------------------------------------------------- loop()
\* the statement of loop() that follows the one at position p
\* loop() rendering right after the clear, before the draw calls
LoopSucc_RenderEarly(p) ==
  CASE p = "handle" -> "time"
    [] p = "time" -> "frame"
    [] p = "clear" -> "render"
    [] p = "draw" -> "render"
    [] p = "render" -> "handle"

LoopSucc(p) ==
  CASE p = "handle" -> "time"
    [] p = "time" -> "frame"
    [] p = "clear" -> "draw"
    [] p = "draw" -> "render"
    [] p = "render" -> "handle"

\* server.handleClient() with no pending request
ClientIdle ==
  /\ pc = "handle"
  /\ pc' = LoopSucc(pc)
  /\ lastOp' = "idle"
  /\ UNCHANGED <<clock, clockVars, fb, cfg, renderVars, displayVars, drawnBy, fbHist>>

\* cfg after the assignments alone, the two constrain calls left out
postedConfig_NoConstrain(c, d, g, u) ==
  [ledDiameter |-> IF d[1] THEN U8(d[2]) ELSE c.ledDiameter,
   ledGap |-> IF g[1] THEN U8(g[2]) ELSE c.ledGap,
   use24h |-> IF u[1] THEN u[2] ELSE c.use24h]

\* cfg after the assignments and the two constrain calls of handlePostConfig
postedConfig(c, d, g, u) ==
  LET d1 == IF d[1] THEN U8(d[2]) ELSE c.ledDiameter
      g1 == IF g[1] THEN U8(g[2]) ELSE c.ledGap
      u1 == IF u[1] THEN u[2] ELSE c.use24h
  IN [ledDiameter |-> constrain(d1, 1, 10), ledGap |-> constrain(g1, 0, 8), use24h |-> u1]

\* handlePostConfig: the stores to cfg and the call of updateRenderPitch()
applyPostedConfig(d, g, u, created) ==
  /\ cfg' = postedConfig(cfg, d, g, u)
  /\ updateRenderPitch(FALSE, created)
  /\ lastOp' = "post"

\* server.handleClient() dispatching POST /api/config
handlePostConfig(d, g, u, created) ==
  /\ pc = "handle"
  /\ applyPostedConfig(d, g, u, created)
  /\ pc' = LoopSucc(pc)
  /\ UNCHANGED <<clock, clockVars, fb, applied, geom, displayVars, drawnBy, fbHist>>

\* server.handleClient() dispatching GET /api/mirror (sends fb)
handleGetMirror ==
  /\ pc = "handle"
  /\ pc' = LoopSucc(pc)
  /\ lastOp' = "mirror"
  /\ UNCHANGED <<clock, clockVars, fb, cfg, renderVars, displayVars, drawnBy, fbHist>>

\* the statements of updateClockLogic, getLocalTimeSafe yielding
\* (ok, TmOf(c))
updateClockSteps(ok, c) ==
  LET tm == TmOf(c)
      t6 == formatTimeHHMMSS(tm, cfg.use24h)
  IN /\ pc = "time"
     /\ clock' = c
     /\ IF ~ok \/ tm.sec = lastSecond
        THEN UNCHANGED <<lastSecond, prevT, currT, morphStep>>
        ELSE /\ lastSecond' = tm.sec
             /\ IF t6 # currT
                THEN /\ prevT' = currT
                     /\ currT' = t6
                     /\ morphStep' = 0
                ELSE UNCHANGED <<prevT, currT, morphStep>>
     /\ pc' = LoopSucc(pc)
     /\ lastOp' = "time"
     /\ UNCHANGED <<fb, cfg, renderVars, displayVars, drawnBy, fbArg, fbRet, shadow>>

\* updateClockLogic: getLocalTimeSafe yields (ok, TmOf(c))
updateClockLogic(ok, c) ==
  /\ updateClockSteps(ok, c)
  /\ UNCHANGED call

\* if (now - lastFrame >= FRAME_MS)
FrameCheck(due) ==
  /\ pc = "frame"
  /\ pc' = IF due THEN "clear" ELSE "handle"
  /\ UNCHANGED <<clock, clockVars, fb, cfg, renderVars, displayVars, drawnBy, lastOp, fbHist>>

\* drawFrame, first statement: fbClear(0)
drawFrameClear ==
  /\ pc = "clear"
  /\ fb' = fbClear(0)
  /\ pc' = LoopSucc(pc)
  /\ lastOp' = "clear"
  /\ UNCHANGED <<clock, clockVars, cfg, renderVars, displayVars, drawnBy, fbHist>>

\* the increment without its guard
nextMorphStep_Unguarded(m) == m + 1

\* the step counter starting over instead of stopping at MORPH_STEPS
nextMorphStep_Wraps(m) == IF m < MORPH_STEPS - 1 THEN m + 1 ELSE 0

\* if (morphStep < MORPH_STEPS) morphStep++
nextMorphStep(m) == IF m < MORPH_STEPS THEN m + 1 ELSE m

\* drawFrame, the rest: the draw calls and the step increment
drawFrameDraws ==
  /\ pc = "draw"
  /\ fb' = composeFrame(fb, currT, prevT, morphStep)
  /\ morphStep' = nextMorphStep(morphStep)
  /\ drawnBy' = [p \in Positions |->
                   IF UsesSpawn(currT, prevT, min(morphStep, MORPH_STEPS), p)
                   THEN "spawn" ELSE "static"]
  /\ pc' = LoopSucc(pc)
  /\ lastOp' = "compose"
  /\ UNCHANGED <<clock, lastSecond, prevT, currT, cfg, renderVars, displayVars,
                 fbArg, fbRet, shadow>>

\* drawFrame after its fbClear(0)
drawFrameCompose ==
  /\ drawFrameDraws
  /\ UNCHANGED call

\* the geometry renderFBToTFT computes and stores
renderGeometry ==
  LET pitch == fbPitch
      dot == renderDot(pitch, cfg.ledDiameter, cfg.ledGap)
      gap == renderGap(pitch, dot)
  IN /\ geom' = [pitch |-> pitch, sprW |-> LED_MATRIX_W * pitch, sprH |-> LED_MATRIX_H * pitch,
                 gapWanted |-> renderGapWanted(pitch, cfg.ledGap),
                 dot |-> dot, gap |-> gap, inset |-> renderInset(pitch, dot)]
     /\ applied' = [dot |-> U8(dot), gap |-> U8(gap), pitch |-> U8(pitch)]
     /\ lastOp' = "render"

\* renderFBToTFT
renderFBToTFT ==
  /\ pc = "render"
  /\ renderGeometry
  /\ pc' = LoopSucc(pc)
  /\ UNCHANGED <<clock, clockVars, fb, cfg, fbPitch, useSprite, displayVars, drawnBy, fbHist>>

Next ==
  \/ ClientIdle
  \/ \E d \in PostDiameters, g \in PostGaps, u \in PostUse24h :
       handlePostConfig(d, g, u, TRUE)
  \/ handleGetMirror
  \/ \E ok \in BOOLEAN, c \in {clock, min(clock + 1, MaxClock)} : updateClockLogic(ok, c)
  \/ \E due \in BOOLEAN : FrameCheck(due)
  \/ drawFrameClear
  \/ drawFrameCompose
  \/ renderFBToTFT

Spec == Init /\ [][Next]_vars

\* ------------------------------------------------- geometry runs (SpecGeom)
\* display sizes, status-bar heights and stored LED settings of the runs
DisplayWs == {q * LED_MATRIX_W + r : q \in 0 .. MaxUnitsW, r \in {0, LED_MATRIX_W - 1}} \cup {TFT_W}
DisplayHs == {q * LED_MATRIX_H + r : q \in 0 .. MaxUnitsH, r \in {0, LED_MATRIX_H - 1}} \cup {TFT_H}
BarHs == {0, STATUS_BAR_H, 2 * STATUS_BAR_H}

InitGeom ==
  \E w \in DisplayWs, h \in DisplayHs, sbh \in BarHs,
     d \in 0 .. MaxReqDiameter, g \in 0 .. MaxReqGap, created \in BOOLEAN :
    InitOn(w, h, sbh, d, g, created)

\* a POST /api/config carrying LED settings
GeomPost(d, g, created) ==
  /\ applyPostedConfig(<<TRUE, d>>, <<TRUE, g>>, <<FALSE, FALSE>>, created)
  /\ UNCHANGED <<pc, clock, clockVars, fb, applied, geom, displayVars, drawnBy, fbHist>>

\* the geometry part of a renderFBToTFT call
GeomRender ==
  /\ renderGeometry
  /\ UNCHANGED <<pc, clock, clockVars, fb, cfg, fbPitch, useSprite, displayVars,
                 drawnBy, fbHist>>

NextGeom ==
  \/ \E d \in {0, MaxReqDiameter + 8}, g \in {0, MaxReqGap + 8}, created \in BOOLEAN :
       GeomPost(d, g, created)
  \/ GeomRender

SpecGeom == InitGeom /\ [][NextGeom]_vars

\* ---------------------------------------------- framebuffer runs (SpecFb)
\* a call fbSet(x, y, v)
FbSetCall(x, y, v) ==
  /\ fb' = fbSet(fb, x, y, v)
  /\ fbArg' = <<"set", x, y, v>>
  /\ shadow' = IF <<x, y>> \in ProbeCells THEN [shadow EXCEPT ![<<x, y>>] = v] ELSE shadow
  /\ UNCHANGED <<pc, clock, clockVars, cfg, renderVars, displayVars, drawnBy, lastOp, fbRet,
                 call>>

\* a call fbGet(x, y)
FbGetCall(x, y) ==
  /\ fbRet' = fbGet(fb, x, y)
  /\ fbArg' = <<"get", x, y, 0>>
  /\ UNCHANGED <<pc, clock, clockVars, fb, cfg, renderVars, displayVars, drawnBy, lastOp,
                 shadow, call>>

NextFb ==
  \/ \E x \in ProbeXs, y \in ProbeYs, v \in ProbeValues : FbSetCall(x, y, v)
  \/ \E x \in ProbeXs, y \in ProbeYs : FbGetCall(x, y)

SpecFb == Init /\ [][NextFb]_vars

\* --------------------------------------------------- colon runs (SpecColon)
\* the columns of colon k and how a grid shows them: "shown" when the colon
\* glyph is there at 255, "cleared" when every cell is 0, "other" otherwise
ColonRange(k) == colonX(k) .. (colonX(k) + COLON_W - 1)
ColonLook(f) ==
  LET cells == (ColonRange(0) \cup ColonRange(1)) \X Rows
  IN IF \A c \in cells : f[c[2]][c[1]] = 0 THEN "cleared"
     ELSE IF \A c \in cells : f[c[2]][c[1]] \in {0, 255} THEN "shown"
     ELSE "other"

\* the looks <<lastSecond % 2, look>> recorded so far
FrameLooks == IF call.op = "frames" THEN call.looks ELSE {}

\* drawFrame after its fbClear(0), recording how the frame shows the colons
\* once a time has been obtained
ColonFrame ==
  /\ drawFrameDraws
  /\ call' = [op |-> "frames",
               looks |-> IF currT = Dashes THEN FrameLooks
                         ELSE FrameLooks \cup {<<lastSecond % 2, ColonLook(fb')>>}]

NextColon ==
  \/ ClientIdle
  \/ \E ok \in BOOLEAN, c \in {clock, min(clock + 1, MaxClock)} : updateClockLogic(ok, c)
  \/ \E due \in BOOLEAN : FrameCheck(due)
  \/ drawFrameClear
  \/ ColonFrame
  \/ renderFBToTFT

SpecColon == Init /\ [][NextColon]_vars

\* ------------------------------------------------ API runs (SpecApi)
\* the integers a request carries for ledDiameter and ledGap: around the
\* accepted ranges, negative ones, and the values around the uint8_t wrap
ApiInts(m) == {0 - m, 0 - 1, 0, 1, m, m + 8, 255, 256}
ApiDiameters == {<<FALSE, 0>>} \cup {<<TRUE, v>> : v \in ApiInts(MaxReqDiameter)}
ApiGaps == {<<FALSE, 0>>} \cup {<<TRUE, v>> : v \in ApiInts(MaxReqGap)}

\* an accepted POST /api/config, the request kept as history
ApiPost(d, g) ==
  /\ applyPostedConfig(d, g, <<FALSE, FALSE>>, TRUE)
  /\ call' = [op |-> "post", d |-> d, g |-> g]
  /\ UNCHANGED <<pc, clock, clockVars, fb, applied, geom, displayVars, drawnBy,
                 fbArg, fbRet, shadow>>

NextApi ==
  \/ \E d \in ApiDiameters, g \in ApiGaps : ApiPost(d, g)
  \/ GeomRender

\* the device started with the default settings, then driven through the API
SpecApi == Init /\ [][NextApi]_vars

\* --------------------------------------- sprite failure runs (SpecSprite)
\* cfg.ledColor of the runs, the default 0xFF0000, as <<R, G, B>>
LedColor == <<255, 0, 0>>

\* rgb888_to_565 of the components r, g, b
rgb888_to_565(r, g, b) == ((r \div 8) * 8) * 256 + ((g \div 4) * 4) * 8 + (b \div 8)

\* the product cut to eight bits before the division
scaleChannel_Wrap8(b, v) == U8(U8(b * v) \div 255)

\* (uint8_t)((base * (uint16_t)v) / 255): the product is a 32-bit int, which
\* an 8-bit base times an 8-bit v cannot wrap
scaleChannel(b, v) == U8((b * v) \div 255)

\* colScaled of a cell of intensity v
colScaled(base, v) ==
  rgb888_to_565(scaleChannel(base[1], v), scaleChannel(base[2], v), scaleChannel(base[3], v))

\* y0 centring the matrix in the whole display height
renderY0_FullHeight(h, sbh, sprH) == CDiv(h - sprH, 2)

\* x0, y0 of renderFBToTFT
renderX0(w, sprW) == CDiv(w - sprW, 2)
renderY0(h, sbh, sprH) ==
  LET m == h - sbh
      matrixAreaH == IF m < sprH THEN h ELSE m
  IN CDiv(matrixAreaH - sprH, 2)

\* the spr.fillRect calls of the sprite path: <<x, y, size, colour>> in
\* sprite coordinates
spriteRects(f, g, base) ==
  {<<c[1] * g.pitch + g.inset, c[2] * g.pitch + g.inset, g.dot, colScaled(base, f[c[2]][c[1]])>> :
     c \in LitCells(f)}

\* spr.pushSprite(x0, y0): the rectangles as they appear on the display
pushSprite(rects, x0, y0) == {<<r[1] + x0, r[2] + y0, r[3], r[4]>> : r \in rects}

\* the direct path drawing each dot at the corner of its cell
directRects_NoInset(f, g, base, x0, y0) ==
  {<<x0 + c[1] * g.pitch, y0 + c[2] * g.pitch, g.dot, colScaled(base, f[c[2]][c[1]])>> :
     c \in LitCells(f)}

\* the tft.fillRect calls of the direct-draw path
directRects(f, g, base, x0, y0) ==
  {<<x0 + c[1] * g.pitch + g.inset, y0 + c[2] * g.pitch + g.inset, g.dot,
     colScaled(base, f[c[2]][c[1]])>> : c \in LitCells(f)}

\* LED diameters the requests of these runs carry
SpriteDiameters == {DEFAULT_LED_DIAMETER - 2, DEFAULT_LED_DIAMETER}

\* setup() with a sprite allocation that succeeds or fails
InitSprite ==
  \E created \in BOOLEAN :
    /\ setupGlobals(TFT_W, TFT_H, STATUS_BAR_H, DEFAULT_LED_DIAMETER, DEFAULT_LED_GAP, created)
    /\ call = [op |-> "rebuild", tried |-> TRUE, created |-> created]

\* POST /api/config with an LED diameter; tried tells whether
\* updateRenderPitch reached rebuildSprite
SpritePost(d, created) ==
  /\ pc = "handle"
  /\ applyPostedConfig(<<TRUE, d>>, <<FALSE, 0>>, <<FALSE, FALSE>>, created)
  /\ pc' = LoopSucc(pc)
  /\ call' = [op |-> "rebuild",
              tried |-> ~(computeRenderPitch(tftW, tftH, statusBarH) = fbPitch /\ useSprite),
              created |-> created]
  /\ UNCHANGED <<clock, clockVars, fb, applied, geom, displayVars, drawnBy, fbArg, fbRet, shadow>>

\* renderFBToTFT with the rectangles it puts on the display
renderFBToTFTOut ==
  /\ pc = "render"
  /\ renderGeometry
  /\ pc' = LoopSucc(pc)
  /\ call' = LET x0 == renderX0(tftW, LED_MATRIX_W * fbPitch)
                 y0 == renderY0(tftH, statusBarH, LED_MATRIX_H * fbPitch)
             IN [op |-> "tft",
                 mode |-> IF useSprite THEN "sprite" ELSE "direct",
                 rects |-> IF useSprite
                           THEN pushSprite(spriteRects(fb, geom', LedColor), x0, y0)
                           ELSE directRects(fb, geom', LedColor, x0, y0)]
  /\ UNCHANGED <<clock, clockVars, fb, cfg, fbPitch, useSprite, displayVars, drawnBy,
                 fbArg, fbRet, shadow>>

NextSprite ==
  \/ ClientIdle
  \/ \E d \in SpriteDiameters, created \in BOOLEAN : SpritePost(d, created)
  \/ \E ok \in BOOLEAN : updateClockLogic(ok, clock)
  \/ \E due \in BOOLEAN : FrameCheck(due)
  \/ drawFrameClear
  \/ drawFrameCompose
  \/ renderFBToTFTOut

SpecSprite == InitSprite /\ [][NextSprite]_vars

\* --------------------------------------------- colour runs (SpecColour)
\* channel values and base colours of the runs
ChannelSamples == {0, 1, 127, 128, 255}
BaseColours == {<<c, 255 - c, 128>> : c \in ChannelSamples} \cup {<<c, c, c>> : c \in ChannelSamples}

\* the body of the x loop of renderFBToTFT for a cell of intensity v
renderCell(base, v) ==
  IF v = 0
  THEN [drawn |-> FALSE, rgb |-> <<0, 0, 0>>, packed |-> 0]
  ELSE [drawn |-> TRUE,
        rgb |-> <<scaleChannel(base[1], v), scaleChannel(base[2], v), scaleChannel(base[3], v)>>,
        packed |-> colScaled(base, v)]

\* setup() with the default cfg.ledColor
InitColour ==
  /\ setupGlobals(TFT_W, TFT_H, STATUS_BAR_H, DEFAULT_LED_DIAMETER, DEFAULT_LED_GAP, TRUE)
  /\ call = [op |-> "base", base |-> LedColor, v |-> 0, cell |-> renderCell(LedColor, 0)]

\* POST /api/config carrying ledColor
ColourPost(base) ==
  /\ call' = [op |-> "base", base |-> base, v |-> 0, cell |-> renderCell(base, 0)]
  /\ UNCHANGED <<pc, clock, clockVars, fb, cfg, renderVars, displayVars, drawnBy, lastOp,
                 fbArg, fbRet, shadow>>

\* one pass of the loop body on a cell of intensity v
ColourCell(v) ==
  /\ call' = [op |-> "cell", base |-> call.base, v |-> v, cell |-> renderCell(call.base, v)]
  /\ UNCHANGED <<pc, clock, clockVars, fb, cfg, renderVars, displayVars, drawnBy, lastOp,
                 fbArg, fbRet, shadow>>

NextColour ==
  \/ \E base \in BaseColours : ColourPost(base)
  \/ \E v \in 0 .. 255 : ColourCell(v)

SpecColour == InitColour /\ [][NextColour]_vars

\* ------------------------------------------- render steps (SpecRender)
\* line1 and line2 of drawStatusBar: the Wi-Fi line is constant in these
\* runs; line2 holds currDate (set together with the first time string),
\* cfg.ledDiameter, cfg.ledGap, appliedPitch, appliedDot and appliedGap
statusLines(cT, c, ap) == <<cT # Dashes, c.ledDiameter, c.ledGap, ap.pitch, ap.dot, ap.gap>>

\* drawStatusBar: <<status-bar region of the display, lastLine1/lastLine2>>
\* afterwards; a region or a remembered text is <<>> (blank, "") or <<lines>>;
\* elapsed tells whether now - lastDrawMs >= 1000
drawStatusBar(bar, lastLines, lines, elapsed) ==
  LET changed == lastLines # <<lines>>
  IN IF ~changed /\ ~elapsed THEN <<bar, lastLines>> ELSE <<(<<lines>>), (<<lines>>)>>

\* the loops of a render drawing every cell on the live display
renderCellsLive_AlwaysDirect(sprite, live, rects) == rects

\* the matrix rectangles on the live display after the cell loops of
\* renderFBToTFT
renderCellsLive(sprite, live, rects) == IF sprite THEN live ELSE rects

\* requests handled at any statement of loop() and renderFBToTFT
PostEnabledAt_Anywhere(p) == TRUE

\* server.handleClient() is called at one place of loop()
PostEnabledAt(p) == p = "handle"

\* the statements of renderFBToTFT after its first
RenderPcs == {"r_cells", "r_push", "r_status"}

\* setup(): the display filled black, no status text drawn yet
InitRender ==
  \E created \in BOOLEAN :
    /\ setupGlobals(TFT_W, TFT_H, STATUS_BAR_H, DEFAULT_LED_DIAMETER, DEFAULT_LED_GAP, created)
    /\ call = [op |-> "render", ops |-> <<>>, cells |-> {}, live |-> {}, bar |-> <<>>,
               lastLines |-> <<>>]

\* POST /api/config with an LED diameter
RenderPost(d, created) ==
  /\ PostEnabledAt(pc)
  /\ applyPostedConfig(<<TRUE, d>>, <<FALSE, 0>>, <<FALSE, FALSE>>, created)
  /\ pc' = "time"
  /\ UNCHANGED <<clock, clockVars, fb, applied, geom, displayVars, drawnBy, fbHist>>

\* renderFBToTFT up to spr.fillSprite / tft.fillScreen
renderClearStep ==
  /\ pc = "render"
  /\ renderGeometry
  /\ pc' = "r_cells"
  /\ call' = [call EXCEPT !.ops = <<IF useSprite THEN "spr.fillSprite" ELSE "tft.fillScreen">>,
                          !.cells = {},
                          !.live = IF useSprite THEN @ ELSE {},
                          !.bar = IF useSprite THEN @ ELSE <<>>]
  /\ UNCHANGED <<clock, clockVars, fb, cfg, fbPitch, useSprite, displayVars, drawnBy,
                 fbArg, fbRet, shadow>>

\* renderFBToTFT: the y/x loops with their fillRect calls
renderCellsStep ==
  LET x0 == renderX0(tftW, geom.sprW)
      y0 == renderY0(tftH, statusBarH, geom.sprH)
      rects == IF useSprite THEN spriteRects(fb, geom, LedColor)
               ELSE directRects(fb, geom, LedColor, x0, y0)
  IN /\ pc = "r_cells"
     /\ pc' = IF useSprite THEN "r_push" ELSE "r_status"
     /\ call' = [call EXCEPT !.ops = Append(@, IF useSprite THEN "spr.fillRect" ELSE "tft.fillRect"),
                             !.cells = rects,
                             !.live = renderCellsLive(useSprite, @, rects)]
     /\ UNCHANGED <<clock, clockVars, fb, cfg, renderVars, displayVars, drawnBy, lastOp,
                    fbArg, fbRet, shadow>>

\* renderFBToTFT: spr.pushSprite(x0, y0)
renderPushStep ==
  /\ pc = "r_push"
  /\ pc' = "r_status"
  /\ call' = [call EXCEPT !.ops = Append(@, "spr.pushSprite"),
                          !.live = pushSprite(call.cells, renderX0(tftW, geom.sprW),
                                              renderY0(tftH, statusBarH, geom.sprH))]
  /\ UNCHANGED <<clock, clockVars, fb, cfg, renderVars, displayVars, drawnBy, lastOp,
                 fbArg, fbRet, shadow>>

\* renderFBToTFT: the closing drawStatusBar()
renderStatusStep(elapsed) ==
  LET r == drawStatusBar(call.bar, call.lastLines, statusLines(currT, cfg, applied), elapsed)
  IN /\ pc = "r_status"
     /\ pc' = "handle"
     /\ call' = [call EXCEPT !.ops = Append(@, "drawStatusBar"), !.bar = r[1], !.lastLines = r[2]]
     /\ UNCHANGED <<clock, clockVars, fb, cfg, renderVars, displayVars, drawnBy, lastOp,
                    fbArg, fbRet, shadow>>

NextRender ==
  \/ ClientIdle
  \/ \E d \in SpriteDiameters, created \in BOOLEAN : RenderPost(d, created)
  \/ \E ok \in BOOLEAN : updateClockLogic(ok, clock)
  \/ \E due \in BOOLEAN : FrameCheck(due)
  \/ drawFrameClear
  \/ drawFrameCompose
  \/ renderClearStep
  \/ renderCellsStep
  \/ renderPushStep
  \/ \E elapsed \in BOOLEAN : renderStatusStep(elapsed)

SpecRender == InitRender /\ [][NextRender]_vars

\* ------------------------------------------- settling runs (SpecSettle)
\* setup(); the history counts the drawFrame calls since the time string
\* last changed (up to MORPH_STEPS + 1) and keeps the frame of the last call
InitSettle ==
  /\ setupGlobals(TFT_W, TFT_H, STATUS_BAR_H, DEFAULT_LED_DIAMETER, DEFAULT_LED_GAP, TRUE)
  /\ call = [op |-> "settle", ticks |-> 0, frame |-> fbClear(0)]

\* updateClockLogic
SettleTime(ok, c) ==
  /\ updateClockSteps(ok, c)
  /\ call' = IF currT' # currT THEN [call EXCEPT !.ticks = 0] ELSE call

\* drawFrame after its fbClear(0)
SettleTick ==
  /\ drawFrameDraws
  /\ call' = [op |-> "settle", ticks |-> min(call.ticks + 1, MORPH_STEPS + 1), frame |-> fb']

NextSettle ==
  \/ ClientIdle
  \/ \E ok \in BOOLEAN, c \in {clock, min(clock + 1, MaxClock)} : SettleTime(ok, c)
  \/ \E due \in BOOLEAN : FrameCheck(due)
  \/ drawFrameClear
  \/ SettleTick
  \/ renderFBToTFT

\* loop() runs for ever and millis() advances: each statement of loop()
\* that is reached is executed, and the frame check finds a frame due again
\* and again
SpecSettle ==
  /\ InitSettle
  /\ [][NextSettle]_vars
  /\ WF_vars(ClientIdle)
  /\ WF_vars(\E ok \in BOOLEAN : SettleTime(ok, clock))
  /\ SF_vars(FrameCheck(TRUE))
  /\ WF_vars(drawFrameClear)
  /\ WF_vars(renderFBToTFT)

\* ------------------------------------------- particle runs (SpecParticle)
\* glyph codes of the runs: the digits and one unknown code (a blank glyph)
GlyphCodes == 0 .. 10

\* steps of the runs: both ends, the middle and the steps where float
\* rounding shows
ParticleSteps == {0, 10, 12, 17, MORPH_STEPS}

\* a call drawParticleMorph(makeDigit7Seg(a), makeDigit7Seg(b), step, 0, 0,
\* DIGIT_W) on the cleared framebuffer, first part: the point lists and the
\* matching (the step argument is drawn when it is first used)
ParticleMorphMatch(a, b) ==
  /\ call.op = "none"
  /\ call' = [op |-> "matched", a |-> a, b |-> b, step |-> 0,
               L |-> particleLocals(makeDigit7Seg(a), makeDigit7Seg(b), DIGIT_W)]
  /\ UNCHANGED <<pc, clock, clockVars, fb, cfg, renderVars, displayVars, drawnBy, lastOp,
                 fbArg, fbRet, shadow>>

\* the same call, second part: the three drawing loops; fma tells whether
\* the build fuses the multiply-add
ParticleMorphDraw(step, fma) ==
  /\ call.op = "matched"
  /\ fb' = drawParticleMorph(fb, call.L, step, 0, 0, fma)
  /\ call' = [call EXCEPT !.op = "particle", !.step = step]
  /\ UNCHANGED <<pc, clock, clockVars, cfg, renderVars, displayVars, drawnBy, lastOp,
                 fbArg, fbRet, shadow>>

\* fbClear(0) before the next drawing call
GlyphReset ==
  /\ call.op \notin {"none", "matched"}
  /\ fb' = fbClear(0)
  /\ call' = NoCall
  /\ UNCHANGED <<pc, clock, clockVars, cfg, renderVars, displayVars, drawnBy, lastOp,
                 fbArg, fbRet, shadow>>

NextParticle ==
  \/ \E a \in GlyphCodes, b \in GlyphCodes : ParticleMorphMatch(a, b)
  \/ \E step \in ParticleSteps, fma \in BOOLEAN : ParticleMorphDraw(step, fma)
  \/ GlyphReset

SpecParticle == Init /\ [][NextParticle]_vars

\* --------------------------------------------------- glyph runs (SpecGlyph)
\* the glyphs of the runs with their widths: the digits, the glyph of an
\* unknown code and the colon
GlyphsOfRuns ==
  {<<makeDigit7Seg(d), DIGIT_W>> : d \in GlyphCodes} \cup {<<COLON, COLON_W>>}

\* placements <<x0, y0>> of the runs: inside the grid and across its edges
GlyphPlaces ==
  {<<0, 0>>, <<0 - GlyphShift, 0 - GlyphShift>>, <<LED_MATRIX_W - DIGIT_W + GlyphShift, 0>>}

\* steps at which the runs crossfade two different glyphs (a glyph is
\* crossfaded with itself at every step)
CrossSteps == {0, 7, MORPH_STEPS}

\* a call drawMorph(a, b, step, x0, y0, w) on the cleared framebuffer
MorphCall(a, b, w, step, x0, y0) ==
  /\ call.op = "none"
  /\ fb' = drawMorph(fb, a, b, step, x0, y0, w)
  /\ call' = [op |-> "morph", a |-> a, b |-> b, w |-> w, step |-> step, x0 |-> x0, y0 |-> y0]
  /\ UNCHANGED <<pc, clock, clockVars, cfg, renderVars, displayVars, drawnBy, lastOp,
                 fbArg, fbRet, shadow>>

\* a call drawBitmapSolid(bm, x0, y0, w, 255) on the cleared framebuffer
SolidCall(bm, w, x0, y0) ==
  /\ call.op = "none"
  /\ fb' = drawBitmapSolid(fb, bm, x0, y0, w, 255)
  /\ call' = [op |-> "solid", a |-> bm, b |-> bm, w |-> w, step |-> 0, x0 |-> x0, y0 |-> y0]
  /\ UNCHANGED <<pc, clock, clockVars, cfg, renderVars, displayVars, drawnBy, lastOp,
                 fbArg, fbRet, shadow>>

NextGlyph ==
  \/ \E ga \in GlyphsOfRuns, gb \in GlyphsOfRuns, step \in 0 .. MORPH_STEPS,
        at \in GlyphPlaces :
       /\ ga[2] = gb[2]
       /\ ga = gb \/ step \in CrossSteps
       /\ MorphCall(ga[1], gb[1], ga[2], step, at[1], at[2])
  \/ \E g \in GlyphsOfRuns, at \in GlyphPlaces : SolidCall(g[1], g[2], at[1], at[2])
  \/ GlyphReset

SpecGlyph == Init /\ [][NextGlyph]_vars

\* ------------------------------------------- spawn pair runs (SpecSpawn)
\* the lit cells of a grid as <<x, y, value>>
LitValues(f) == {<<c[1], c[2], f[c[2]][c[1]]>> : c \in LitCells(f)}

\* a time string showing character ch at position pos and dashes elsewhere
OneChar(pos, ch) == [Dashes EXCEPT ![pos + 1] = ch]

\* previous characters paired with a target digit d: another digit, and the
\* dash of the placeholder or a second other digit
OtherDigit(d, k) == CH0 + ((d + k) % 10)
SpawnPositions == {0, 5}

\* the drawDigit call of position pos at one step, made once after prevA
\* and once after prevB on a cleared framebuffer
SpawnPair(d, prevA, prevB, step, pos) ==
  LET cT == OneChar(pos, CH0 + d)
      fA == drawDigit(fb, cT, OneChar(pos, prevA), step, pos, digitX(pos))
      fB == drawDigit(fb, cT, OneChar(pos, prevB), step, pos, digitX(pos))
  IN /\ call.op = "none"
     /\ fb' = fA
     /\ call' = [op |-> "spawn", target |-> CH0 + d, prevA |-> prevA, prevB |-> prevB,
                 step |-> step, pos |-> pos,
                 cellsA |-> LitValues(fb'), cellsB |-> LitValues(fB)]
     /\ UNCHANGED <<pc, clock, clockVars, cfg, renderVars, displayVars, drawnBy, lastOp,
                    fbArg, fbRet, shadow>>

NextSpawn ==
  \/ \E d \in 0 .. 9, step \in 0 .. MORPH_STEPS, pos \in SpawnPositions :
        \E prevB \in {DASH, OtherDigit(d, 5), OtherDigit(d, 9)} :
          SpawnPair(d, OtherDigit(d, 1), prevB, step, pos)
  \/ GlyphReset

SpecSpawn == Init /\ [][NextSpawn]_vars

\* ------------------------------------------------------------- properties
max(a, b) == IF a > b THEN a ELSE b

\* "125959" and "130000"
T125959 == <<CH0 + 1, CH0 + 2, CH0 + 5, CH0 + 9, CH0 + 5, CH0 + 9>>
T130000 == <<CH0 + 1, CH0 + 3, CH0, CH0, CH0, CH0>>

\* the columns of digit position pos and of colon k
PosCols(pos) == digitX(pos) .. (digitX(pos) + DIGIT_W - 1)
ColonCols(k) == colonX(k) .. (colonX(k) + COLON_W - 1)

\* cell (x, y) shows an on-pixel of bitmap bm placed at column x0
Shows(bm, x0, x, y) ==
  \E ys \in 0 .. (DIGIT_H - 1) :
    /\ (ys * LED_MATRIX_H) \div DIGIT_H = y
    /\ x - x0 \in 0 .. 15
    /\ PixelOn(bm, x - x0, ys)

\* the static full-intensity image of the time string cT
StaticFrame(cT) ==
  [y \in Rows |-> [x \in Cols |->
     IF \/ \E pos \in Positions :
             x \in PosCols(pos) /\ Shows(DIGITS[digitIdx(cT[pos + 1])], digitX(pos), x, y)
        \/ \E k \in {0, 1} : x \in ColonCols(k) /\ Shows(COLON, colonX(k), x, y)
     THEN 255 ELSE 0]]

OnlyOffOrFull(f) == \A y \in Rows, x \in Cols : f[y][x] \in {0, 255}

\* positions holding a cell that is neither 0 nor 255
IntermediatePositions(f) ==
  {pos \in Positions : \E x \in PosCols(pos), y \in Rows : f[y][x] \notin {0, 255}}

ChangedPositions(cT, pT) == {pos \in Positions : cT[pos + 1] # pT[pos + 1]}

AllStatic == [p \in Positions |-> "static"]

\* a step that completes a drawFrame call
Tick == pc = "draw" /\ pc' = "render"

\* the scenario 12:59:59 -> 13:00:00
Scenario == currT = T130000 /\ prevT = T125959

\* C1: after every render, on every display size, status-bar height and
\* stored LED diameter and gap, the geometry the render used satisfies
\* dot + gap = pitch, dot >= 1 and pitch >= 1.
C1_GeometryInvariant ==
  lastOp = "render" =>
    /\ geom.dot + geom.gap = geom.pitch
    /\ geom.dot >= 1
    /\ geom.pitch >= 1
    /\ geom.pitch = computeRenderPitch(tftW, tftH, statusBarH)

C1_Witness ==
  /\ lastOp = "render"
  /\ cfg.ledGap > geom.pitch - 1
  /\ cfg.ledDiameter = 0
  /\ tftW < LED_MATRIX_W
  /\ geom.pitch = 1

\* C2 as claimed: the 20th drawFrame call counted from step 0 (the call made
\* with morphStep = 19) leaves the static 255 image of 13:00:00 in the
\* framebuffer.
C2_Original ==
  [][(Tick /\ Scenario /\ morphStep = MORPH_STEPS - 1)
       => (fb' = StaticFrame(T130000) /\ OnlyOffOrFull(fb'))]_vars

\* C2 amended: after 20 drawFrame calls the step counter equals N; the 21st
\* call (the first one made with morphStep = N) and every later one leaves
\* the static 255 image of 13:00:00 in the framebuffer, while the 20th still
\* draws the spawn frame of step N - 1.
C2_Amended ==
  [][(Scenario /\ Tick)
       => /\ (morphStep = MORPH_STEPS - 1 => morphStep' = MORPH_STEPS)
          /\ (morphStep = MORPH_STEPS - 1 =>
                IntermediatePositions(fb') = ChangedPositions(currT, prevT))
          /\ (morphStep = MORPH_STEPS =>
                fb' = StaticFrame(T130000) /\ OnlyOffOrFull(fb'))]_vars

C2_Witness ==
  /\ pc = "render"
  /\ Scenario
  /\ morphStep = MORPH_STEPS
  /\ drawnBy = AllStatic
  /\ fb = StaticFrame(T130000)

\* C3 as claimed: in the frame drawn at step 10 of 12:59:59 -> 13:00:00 the
\* positions with intermediate cells are the changed positions, and there
\* are exactly three of them.
C3_Original ==
  [][(Tick /\ Scenario /\ morphStep = 10)
       => /\ IntermediatePositions(fb') = ChangedPositions(currT, prevT)
          /\ Cardinality(IntermediatePositions(fb')) = 3]_vars

\* C3 amended: in the frame drawn at step 10 of 12:59:59 -> 13:00:00 the
\* positions with intermediate cells are exactly the changed positions, and
\* there are exactly five of them (every position but the first); the first
\* position holds only 0 and 255.
C3_Amended ==
  [][(Tick /\ Scenario /\ morphStep = 10)
       => /\ IntermediatePositions(fb') = ChangedPositions(currT, prevT)
          /\ IntermediatePositions(fb') = {1, 2, 3, 4, 5}
          /\ Cardinality(IntermediatePositions(fb')) = 5]_vars

C3_Witness ==
  /\ pc = "render"
  /\ Scenario
  /\ morphStep = 11
  /\ IntermediatePositions(fb) = {1, 2, 3, 4, 5}

\* C4 as claimed: every time update (a successful read of the time) whose
\* formatted digits differ from the displayed string stores the new digits,
\* keeps the old ones as previous and resets the step counter to 0.
C4_Claim ==
  [][\A c \in {clock, clock + 1} :
       (updateClockLogic(TRUE, c) /\ formatTimeHHMMSS(TmOf(c), cfg.use24h) # currT)
         => /\ currT' = formatTimeHHMMSS(TmOf(c), cfg.use24h)
            /\ prevT' = currT
            /\ morphStep' = 0]_vars

\* C5: the step counter stays in 0..N; it changes only by a reset to 0 in a
\* time update that changes the digit string or by +1 in a tick below N; at N
\* it stays until the digit string changes, and a tick at N draws every
\* position by the static blit.
C5_StepCounter ==
  /\ morphStep \in 0 .. MORPH_STEPS
  /\ [][/\ morphStep' \in 0 .. MORPH_STEPS
        /\ morphStep' # morphStep =>
             \/ (pc = "time" /\ currT' # currT /\ morphStep' = 0)
             \/ (Tick /\ morphStep < MORPH_STEPS /\ morphStep' = morphStep + 1)
        /\ (pc = "time" /\ currT' # currT) => morphStep' = 0
        /\ (Tick /\ morphStep < MORPH_STEPS) => morphStep' = morphStep + 1
        /\ (morphStep = MORPH_STEPS /\ currT' = currT) => morphStep' = MORPH_STEPS
        /\ (Tick /\ morphStep = MORPH_STEPS) =>
             (drawnBy' = AllStatic /\ fb' = StaticFrame(currT))]_vars

C5_Witness ==
  /\ pc = "render"
  /\ morphStep = MORPH_STEPS
  /\ currT = T130000
  /\ drawnBy = AllStatic

\* C6 as claimed: when a time update changes the digit string while the
\* step is below N, every position that was mid-transition and whose digit
\* this update does not change keeps animating from the current step.
C6_Claim ==
  [][(pc = "time" /\ currT' # currT /\ morphStep < MORPH_STEPS)
       => \A pos \in Positions :
            (UsesSpawn(currT, prevT, morphStep, pos) /\ currT'[pos + 1] = currT[pos + 1])
              => (UsesSpawn(currT', prevT', morphStep', pos) /\ morphStep' = morphStep)]_vars

\* C7: a frame is rendered only in the order time update, clear, composer
\* draw, render; the only step taken from the cleared framebuffer is the
\* composer draw, so no time update, configuration update, mirror read or
\* render happens between the clear and the end of the draw.
C7_PhaseOrder ==
  [][/\ pc = "clear" => (lastOp = "time" /\ lastOp' = "clear" /\ pc' = "draw")
     /\ pc = "draw" => (lastOp = "clear" /\ lastOp' = "compose" /\ pc' = "render")
     /\ pc = "render" => (lastOp = "compose" /\ lastOp' = "render" /\ fb' = fb)
     /\ lastOp' = "render" => (lastOp = "compose" /\ pc = "render")
     /\ lastOp' = "compose" => (lastOp = "clear" /\ fb = fbClear(0))
     /\ lastOp' = "clear" => lastOp = "time"
     /\ lastOp' \in {"time", "post", "mirror", "idle", "render"} => pc # "draw"]_vars

C7_Witness ==
  /\ pc = "handle"
  /\ lastOp = "render"
  /\ fb # fbClear(0)

\* C8: fbSet at a coordinate outside the grid changes no cell and fbGet
\* there returns 0; fbSet inside the grid changes exactly the addressed cell
\* and fbGet returns the value last set there.
C8_BoundsChecked ==
  [][LET x == fbArg'[2]
         y == fbArg'[3]
         v == fbArg'[4]
         inside == x \in Cols /\ y \in Rows
     IN /\ fbArg'[1] = "set" =>
             IF inside
             THEN /\ fb'[y][x] = v
                  /\ \A yy \in Rows, xx \in Cols : <<xx, yy>> # <<x, y>> => fb'[yy][xx] = fb[yy][xx]
             ELSE fb' = fb
        /\ fbArg'[1] = "get" =>
             fbRet' = IF inside THEN shadow[<<x, y>>] ELSE 0]_vars

C8_Witness ==
  /\ fbArg[1] = "get"
  /\ fbArg[2] = LED_MATRIX_W - 1
  /\ fbArg[3] = LED_MATRIX_H - 1
  /\ fbRet = 255
  /\ fb[0][0] = 255

\* every code outside 0..9 yields a glyph without on-pixel
UnknownCodesBlank ==
  \A d \in 10 .. 255 : \A y \in 0 .. (DIGIT_H - 1) : makeDigit7Seg(d)[y] = 0

\* C9 as claimed: unknown digit codes give a blank glyph, and a position
\* whose character is not a digit 0-9 has no lit cell in the drawn frame.
C9_Claim ==
  /\ UnknownCodesBlank
  /\ pc = "render" =>
       \A pos \in Positions :
         currT[pos + 1] \notin CH0 .. CH9 =>
           \A x \in PosCols(pos), y \in Rows : fb[y][x] = 0

\* C10 as claimed: the pitch is max(1, min(floor(W / logicalW),
\* floor((H - statusBarH) / logicalH))).
C10_Original ==
  fbPitch = max(1, min(tftW \div LED_MATRIX_W, (tftH - statusBarH) \div LED_MATRIX_H))

\* C10 amended: the pitch is max(1, min(floor(W / logicalW), floor(A /
\* logicalH))) where A = H - statusBarH when that is at least 1 and A = H
\* otherwise.
C10_Amended ==
  LET A == IF tftH - statusBarH >= 1 THEN tftH - statusBarH ELSE tftH
  IN fbPitch = max(1, min(tftW \div LED_MATRIX_W, A \div LED_MATRIX_H))

C10_Witness ==
  /\ tftH - statusBarH < 1
  /\ fbPitch >= 2
  /\ lastOp = "render"

\* C11: in every render, with p the pitch, G the stored gap and D the stored
\* diameter: the clamped gap is min(G, p - 1); the dot is p minus the clamped
\* gap, limited to at most max(1, D) and at least 1; the final gap is p - dot
\* and the inset floor((p - dot) / 2).  A gap of 8 at pitch 5 gives clamped
\* gap 4 and dot 1.
C11_RenderGeometry ==
  lastOp = "render" =>
    LET p == geom.pitch
        g1 == min(cfg.ledGap, p - 1)
        dot == max(1, min(p - g1, max(1, cfg.ledDiameter)))
    IN /\ p >= 1 /\ cfg.ledGap >= 0 /\ cfg.ledDiameter >= 0
       /\ geom.gapWanted = g1
       /\ geom.dot = dot
       /\ geom.gap = p - dot
       /\ 2 * geom.inset <= p - dot /\ p - dot < 2 * geom.inset + 2
       /\ (p = 5 /\ cfg.ledGap = 8) => (geom.gapWanted = 4 /\ geom.dot = 1)

C11_Witness ==
  /\ lastOp = "render"
  /\ geom.pitch = 5
  /\ cfg.ledGap = 8
  /\ geom.gapWanted = 4
  /\ geom.dot = 1
  /\ geom.inset = 2

\* C12: on the 320 x 240 display with the 50-pixel status bar, diameter 5 and
\* gap 0, every render applies pitch 5, dot 5, gap 0, inset 0 and a matrix
\* image of 320 x 160.
C12_DefaultGeometry ==
  (/\ lastOp = "render"
   /\ tftW = 320 /\ tftH = 240 /\ statusBarH = 50
   /\ cfg.ledDiameter = 5 /\ cfg.ledGap = 0)
    => /\ geom.pitch = 5 /\ geom.dot = 5 /\ geom.gap = 0 /\ geom.inset = 0
       /\ geom.sprW = 320 /\ geom.sprH = 160
       /\ applied = [dot |-> 5, gap |-> 0, pitch |-> 5]

C12_Witness ==
  /\ lastOp = "render"
  /\ pc = "handle"
  /\ tftW = 320 /\ tftH = 240 /\ statusBarH = 50
  /\ cfg.ledDiameter = 5 /\ cfg.ledGap = 0
  /\ geom.pitch = 5 /\ geom.sprH = 160

\* the on-pixels of a glyph of width w
OnPixels(bm, w) == {q \in (0 .. (w - 1)) \X (0 .. (DIGIT_H - 1)) : PixelOn(bm, q[1], q[2])}

\* the elements of a sequence
Range(seq) == {seq[i] : i \in 1 .. Len(seq)}

\* C13: after every drawParticleMorph call the point lists hold every
\* on-pixel of both glyphs once (no glyph exceeds the 420 entries); the from
\* points split into min(|from|, |to|) matched and |from| - min fade-out
\* points; the to points split into the matched ones, each matched once, and
\* |to| - min fade-in points.
C13_PointConservation ==
  call.op = "particle" =>
    LET L == call.L
        fromOn == OnPixels(makeDigit7Seg(call.a), DIGIT_W)
        toOn == OnPixels(makeDigit7Seg(call.b), DIGIT_W)
        matched == Range(L.matchTo)
    IN /\ L.fromAll <= 420 /\ L.toAll <= 420
       /\ L.fromN = Cardinality(fromOn) /\ L.toN = Cardinality(toOn)
       /\ Len(L.fromPts) = L.fromN /\ Range(L.fromPts) = fromOn
       /\ Len(L.toPts) = L.toN /\ Range(L.toPts) = toOn
       /\ L.pairs = min(L.fromN, L.toN)
       /\ Len(L.matchTo) = L.pairs
       /\ Cardinality(matched) = L.pairs
       /\ matched \subseteq 1 .. L.toN
       /\ Len(L.fadeOut) = L.fromN - L.pairs
       /\ Range(L.fadeOut) = (1 .. L.fromN) \ (1 .. L.pairs)
       /\ Len(L.fadeIn) = L.toN - L.pairs
       /\ Cardinality(Range(L.fadeIn)) = L.toN - L.pairs
       /\ Range(L.fadeIn) = (1 .. L.toN) \ matched

C13_Witness ==
  /\ call.op = "particle"
  /\ call.a = 1 /\ call.b = 8
  /\ call.L.pairs = call.L.fromN
  /\ call.L.pairs > 0
  /\ Len(call.L.fadeIn) > 0
  /\ \E i \in 1 .. call.L.pairs : call.L.matchTo[i] # i

\* the cells of the grid covered by the box of the last glyph call, as
\* <<x, y>> of the glyph
BoxPixels ==
  {q \in (0 .. (call.w - 1)) \X (0 .. (DIGIT_H - 1)) :
     call.x0 + q[1] \in Cols /\ call.y0 + q[2] \in Rows}

\* the value of the grid cell under glyph pixel q of the last glyph call
CellAt(f, q) == f[call.y0 + q[2]][call.x0 + q[1]]

\* C14: a crossfade of a glyph with itself, at any step and placement, on the
\* cleared framebuffer leaves exactly the framebuffer of the static draw of
\* the glyph at 255 there.
C14_SelfMorphIsStatic ==
  [][(call'.op = "morph" /\ call'.a = call'.b)
       => fb' = drawBitmapSolid(fb, call'.a, call'.x0, call'.y0, call'.w, 255)]_vars

C14_Witness ==
  /\ call.op = "morph"
  /\ call.a = DIGITS[8] /\ call.b = DIGITS[8]
  /\ call.step = 7
  /\ call.x0 = 0 /\ call.y0 = 0
  /\ \A q \in BoxPixels : CellAt(fb, q) = IF PixelOn(DIGITS[8], q[1], q[2]) THEN 255 ELSE 0

\* C15: after a crossfade of a and b on the cleared framebuffer, a cell on in
\* both is 255; a cell on only in a holds 255 * (N - step) / N and a cell on
\* only in b holds 255 * step / N (integer division); so at step 0 the
\* a-only cells are at 255 and the b-only cells unlit, and at step N the
\* reverse.
C15_CrossfadeEnds ==
  call.op = "morph" =>
    \A q \in BoxPixels :
      LET aon == PixelOn(call.a, q[1], q[2])
          bon == PixelOn(call.b, q[1], q[2])
          v == CellAt(fb, q)
      IN /\ (aon /\ bon) => v = 255
         /\ (aon /\ ~bon) => v = (255 * (MORPH_STEPS - call.step)) \div MORPH_STEPS
         /\ (~aon /\ bon) => v = (255 * call.step) \div MORPH_STEPS
         /\ (~aon /\ ~bon) => v = 0
         /\ (call.step = 0 /\ aon) => v = 255
         /\ (call.step = 0 /\ ~aon) => v = 0
         /\ (call.step = MORPH_STEPS /\ bon) => v = 255
         /\ (call.step = MORPH_STEPS /\ ~bon) => v = 0

C15_Witness ==
  /\ call.op = "morph"
  /\ call.a = DIGITS[1] /\ call.b = DIGITS[2]
  /\ call.step = MORPH_STEPS
  /\ call.x0 = 0 /\ call.y0 = 0
  /\ \E q \in BoxPixels : PixelOn(call.a, q[1], q[2]) /\ CellAt(fb, q) = 0
  /\ \E q \in BoxPixels : ~PixelOn(call.a, q[1], q[2]) /\ CellAt(fb, q) = 255

\* C16: every digit glyph 0..9 built by initBitmaps has at least one
\* on-pixel and glyph 1 has fewer on-pixels than glyph 8; a static draw of a
\* glyph inside the grid lights one cell per on-pixel.
C16_GlyphCounts ==
  /\ \A d \in 0 .. 9 : Cardinality(OnPixels(DIGITS[d], DIGIT_W)) >= 1
  /\ Cardinality(OnPixels(DIGITS[1], DIGIT_W)) < Cardinality(OnPixels(DIGITS[8], DIGIT_W))
  /\ (call.op = "solid" /\ call.x0 = 0 /\ call.y0 = 0)
       => Cardinality(LitCells(fb)) = Cardinality(OnPixels(call.a, call.w))

C16_Witness ==
  /\ call.op = "solid"
  /\ call.a = DIGITS[1]
  /\ call.x0 = 0 /\ call.y0 = 0
  /\ Cardinality(LitCells(fb)) >= 1
  /\ Cardinality(LitCells(fb)) < Cardinality(OnPixels(DIGITS[8], DIGIT_W))

\* C17 as claimed: the frames drawn during seconds of one parity have the
\* colon column ranges all cleared and the frames drawn during seconds of
\* the other parity show the colons at full intensity, whatever the morph
\* step.
C17_Claim ==
  \E p \in {0, 1} : FrameLooks \subseteq {<<p, "cleared">>, <<1 - p, "shown">>}

\* C18: the clock row is 63 wide and starts at floor((W - 63) / 2), at least
\* 0; on the 64-wide matrix the boxes of the six digits and two colons lie
\* within columns 0..63 without overlap, and in a static frame every
\* on-pixel of every digit and colon glyph is lit in the framebuffer: the
\* bounds check drops none.
C18_RowLayout ==
  /\ totalW = 63
  /\ rowX0 = max(0, (LED_MATRIX_W - 63) \div 2)
  /\ \A pos \in Positions : PosCols(pos) \subseteq Cols
  /\ \A k \in {0, 1} : ColonCols(k) \subseteq Cols
  /\ \A pos \in Positions, k \in {0, 1} : PosCols(pos) \cap ColonCols(k) = {}
  /\ \A p1 \in Positions, p2 \in Positions : p1 # p2 => PosCols(p1) \cap PosCols(p2) = {}
  /\ (pc = "render" /\ drawnBy = AllStatic) =>
       /\ \A pos \in Positions :
            \A q \in OnPixels(DIGITS[digitIdx(currT[pos + 1])], DIGIT_W) :
              fb[q[2]][digitX(pos) + q[1]] = 255
       /\ \A k \in {0, 1} : \A q \in OnPixels(COLON, COLON_W) : fb[q[2]][colonX(k) + q[1]] = 255

C18_Witness ==
  /\ pc = "render"
  /\ drawnBy = AllStatic
  /\ currT = T130000
  /\ digitX(5) + DIGIT_W - 1 = LED_MATRIX_W - 2
  /\ fb[1][LED_MATRIX_W - 2] = 255
  /\ fb[1][0] = 0 /\ fb[1][5] = 255

\* C19: when spr.createSprite fails, at startup or in a later rebuild, the
\* engine is in direct-draw mode afterwards; the frame loop goes on, a due
\* frame is always rendered, and in direct-draw mode the rectangles put on
\* the display are those the sprite path would have put there: one per lit
\* cell, same position, size and colour.
C19_DirectDrawFallback ==
  /\ (call.op = "rebuild" /\ call.tried /\ ~call.created) => ~useSprite
  /\ (pc = "render") => ENABLED renderFBToTFTOut
  /\ (lastOp = "render" /\ ~useSprite) =>
       /\ call.op = "tft"
       /\ call.mode = "direct"
       /\ call.rects = pushSprite(spriteRects(fb, geom, LedColor),
                                  renderX0(tftW, geom.sprW), renderY0(tftH, statusBarH, geom.sprH))
       /\ Cardinality(call.rects) = Cardinality(LitCells(fb))
       /\ geom.dot = renderDot(fbPitch, cfg.ledDiameter, cfg.ledGap)
       /\ geom.inset = renderInset(fbPitch, geom.dot)

C19_Witness ==
  /\ lastOp = "render"
  /\ ~useSprite
  /\ call.op = "tft"
  /\ call.mode = "direct"
  /\ geom.inset > 0
  /\ currT # Dashes
  /\ morphStep = MORPH_STEPS
  /\ Cardinality(call.rects) > 0

\* C20: after every accepted POST /api/config, whatever integers it carries
\* for ledDiameter and ledGap, cfg.ledDiameter is in 1..10 and cfg.ledGap in
\* 0..8; starting from the defaults, both ranges hold in every state
\* reached through the API.
C20_ConfigRange ==
  /\ DEFAULT_LED_DIAMETER \in 1 .. 10
  /\ DEFAULT_LED_GAP \in 0 .. 8
  /\ cfg.ledDiameter \in 1 .. 10
  /\ cfg.ledGap \in 0 .. 8
  /\ call.op = "post" => (cfg.ledDiameter \in 1 .. 10 /\ cfg.ledGap \in 0 .. 8)

C20_Witness ==
  /\ call.op = "post"
  /\ call.d = <<TRUE, 0 - 1>>
  /\ call.g = <<TRUE, 256>>
  /\ cfg.ledDiameter = 10
  /\ cfg.ledGap = 0

\* the operations of a complete sprite-mode render, in order
SpriteOps == <<"spr.fillSprite", "spr.fillRect", "spr.pushSprite", "drawStatusBar">>

\* C21: with the sprite in use every render clears the whole sprite, then
\* draws one rectangle per cell of intensity > 0 into the sprite, then
\* pushes the sprite in one blit; from the start of the render up to the
\* blit the matrix cells on the live display are not written, and the blit
\* puts exactly the drawn cells there.
C21_SpriteRenderOrder ==
  [][useSprite =>
       /\ pc = "render" => (call'.ops = SubSeq(SpriteOps, 1, 1) /\ call'.live = call.live)
       /\ pc = "r_cells" =>
            /\ call'.ops = SubSeq(SpriteOps, 1, 2)
            /\ call'.live = call.live
            /\ call'.cells = spriteRects(fb, geom, LedColor)
            /\ Cardinality(call'.cells) = Cardinality(LitCells(fb))
       /\ pc = "r_push" =>
            /\ call'.ops = SubSeq(SpriteOps, 1, 3)
            /\ call'.live = pushSprite(call.cells, renderX0(tftW, geom.sprW),
                                       renderY0(tftH, statusBarH, geom.sprH))
       /\ pc = "r_status" => (call'.ops = SpriteOps /\ call'.live = call.live /\ pc' = "handle")
    ]_vars

C21_Witness ==
  /\ useSprite
  /\ pc = "handle"
  /\ lastOp = "render"
  /\ call.ops = SpriteOps
  /\ Cardinality(call.cells) > 0
  /\ call.live = pushSprite(call.cells, 0, renderY0(TFT_H, STATUS_BAR_H, geom.sprH))
  /\ \E r \in call.cells : r[4] \notin {0, colScaled(LedColor, 255)}

\* a step that handles a configuration change, or that changes the sprite
\* or the pitch it was built for
RebuildStep ==
  \/ useSprite' # useSprite
  \/ fbPitch' # fbPitch
  \/ \E d \in SpriteDiameters, created \in BOOLEAN : RenderPost(d, created)

\* C22: the sprite is deleted or re-created only while a configuration
\* change is handled (or in setup), at the server.handleClient() call of
\* loop(): no such step starts inside renderFBToTFT or at its first
\* statement, and none ends inside it.
C22_NoRebuildDuringRender ==
  [][RebuildStep => (pc = "handle" /\ pc' = "time" /\ pc \notin RenderPcs \cup {"render"})]_vars

C22_Witness ==
  /\ lastOp = "post"
  /\ pc = "time"
  /\ useSprite
  /\ call.ops = <<"tft.fillScreen", "tft.fillRect", "drawStatusBar">>
  /\ call.live # {}

\* C28 as claimed: after every completed render, in sprite mode and in
\* direct-draw mode, the status-bar region of the display shows the status
\* text drawn most recently; no render leaves it erased.
C28_Claim ==
  (pc = "handle" /\ lastOp = "render") =>
    (call.bar # <<>> /\ call.bar = call.lastLines)

\* C23: for every cell of intensity v in 1..255 and every base colour the
\* channels handed to the RGB565 packing are floor(base*v/255); the product
\* fits 16 bits; each channel is at most the base channel and equals it at
\* v = 255; a cell of intensity 0 is not drawn.
C23_ColourScaling ==
  call.op = "cell" =>
    /\ call.v = 0 => ~call.cell.drawn
    /\ call.v \in 1 .. 255 =>
         /\ call.cell.drawn
         /\ \A i \in 1 .. 3 :
              /\ call.base[i] * call.v < 65536
              /\ call.cell.rgb[i] = (call.base[i] * call.v) \div 255
              /\ call.cell.rgb[i] <= call.base[i]
              /\ call.v = 255 => call.cell.rgb[i] = call.base[i]
         /\ call.cell.packed = rgb888_to_565(call.cell.rgb[1], call.cell.rgb[2], call.cell.rgb[3])

C23_Witness ==
  /\ call.op = "cell"
  /\ call.base = <<255, 0, 128>>
  /\ call.v = 128
  /\ call.cell.drawn
  /\ call.cell.rgb = <<128, 0, 64>>

\* the points of a list are in row-major scan order: by y, then by x
RowMajor(pts) ==
  \A i \in 1 .. (Len(pts) - 1) :
    \/ pts[i][2] < pts[i + 1][2]
    \/ (pts[i][2] = pts[i + 1][2] /\ pts[i][1] < pts[i + 1][1])

\* the to points already taken when from point i is matched
UsedBefore(L, i) == {L.matchTo[k] : k \in 1 .. (i - 1)}

\* C24: the matching of drawParticleMorph is greedy in scan order: both
\* point lists are in row-major order, exactly min(|from|, |to|) from points
\* are matched, and the i-th is matched to a to point not used before that
\* has the least squared distance among the unused ones and, among those at
\* that distance, comes first in to's scan order.
C24_GreedyMatching ==
  call.op = "matched" =>
    LET L == call.L
    IN /\ RowMajor(L.fromPts)
       /\ RowMajor(L.toPts)
       /\ L.pairs = min(Len(L.fromPts), Len(L.toPts))
       /\ Len(L.matchTo) = L.pairs
       /\ \A i \in 1 .. L.pairs :
            LET used == UsedBefore(L, i)
                j == L.matchTo[i]
            IN /\ j \in (1 .. L.toN) \ used
               /\ \A j2 \in (1 .. L.toN) \ used :
                    \/ dist2(L.fromPts[i], L.toPts[j]) < dist2(L.fromPts[i], L.toPts[j2])
                    \/ /\ dist2(L.fromPts[i], L.toPts[j]) = dist2(L.fromPts[i], L.toPts[j2])
                       /\ j <= j2

C24_Witness ==
  /\ call.op = "matched"
  /\ call.L.fromN > call.L.toN
  /\ call.L.pairs >= 2
  /\ \E i \in 1 .. call.L.pairs :
       \E j2 \in (1 .. call.L.toN) \ UsedBefore(call.L, i) :
         /\ j2 > call.L.matchTo[i]
         /\ dist2(call.L.fromPts[i], call.L.toPts[j2])
              = dist2(call.L.fromPts[i], call.L.toPts[call.L.matchTo[i]])
         /\ call.L.matchTo[i] # i

C26_Claim ==
  (call.op = "particle" /\ call.step = MORPH_STEPS /\ call.a \in 0 .. 9 /\ call.b \in 0 .. 9) =>
    \A y \in Rows, x \in Cols :
      fb[y][x] = IF x < DIGIT_W /\ Shows(DIGITS[call.b], 0, x, y) THEN 255 ELSE 0

\* the columns of the row that belong to no digit and to no colon
GapCols ==
  Cols \ (UNION {PosCols(pos) : pos \in Positions} \cup UNION {ColonCols(k) : k \in {0, 1}})

\* C27: the column ranges of the six digits and the two colons are pairwise
\* disjoint, and a drawFrame call keeps every transition inside its own
\* range: a position in its spawn morph plots only columns of its range,
\* a position drawn by the static blit shows exactly its glyph, each colon
\* shows exactly the colon glyph and the columns between them stay dark,
\* whatever the other positions do.
C27_TransitionsAreLocal ==
  /\ \A p1 \in Positions, p2 \in Positions : p1 # p2 => PosCols(p1) \cap PosCols(p2) = {}
  /\ \A pos \in Positions, k \in {0, 1} : PosCols(pos) \cap ColonCols(k) = {}
  /\ ColonCols(0) \cap ColonCols(1) = {}
  /\ [][Tick =>
          LET step == min(morphStep, MORPH_STEPS)
          IN /\ \A pos \in Positions :
                  IF UsesSpawn(currT, prevT, step, pos)
                  THEN /\ \A q \in OnPixels(DIGITS[digitIdx(currT[pos + 1])], DIGIT_W) :
                            digitX(pos) + SpawnCoord(q[1], DIGIT_W, step) \in PosCols(pos)
                       /\ \A x \in PosCols(pos), y \in Rows : fb'[y][x] \in {0, SpawnAlpha(step)}
                  ELSE \A x \in PosCols(pos), y \in Rows :
                         fb'[y][x] = IF Shows(DIGITS[digitIdx(currT[pos + 1])], digitX(pos), x, y)
                                     THEN 255 ELSE 0
             /\ \A k \in {0, 1} : \A x \in ColonCols(k), y \in Rows :
                  fb'[y][x] = IF Shows(COLON, colonX(k), x, y) THEN 255 ELSE 0
             /\ \A x \in GapCols, y \in Rows : fb'[y][x] = 0]_vars

C27_Witness ==
  /\ pc = "render"
  /\ Scenario
  /\ morphStep = 8
  /\ drawnBy[0] = "static"
  /\ drawnBy[1] = "spawn"
  /\ \E x \in PosCols(1), y \in Rows : fb[y][x] \notin {0, 255}
  /\ \E x \in PosCols(0), y \in Rows : fb[y][x] = 255

\* the left / top edge of the dot square of column or row i, from origin o
DotEdge(o, i) == o + i * geom.pitch + geom.inset

\* C29: on every display at least as wide as the matrix and with at least
\* the matrix height above the status bar, for every diameter and gap, the
\* dot square of a cell lies inside the pitch x pitch area of its cell
\* (inset >= 0, inset + dot <= pitch), inside the display and above the
\* status bar; the squares of neighbouring cells do not overlap.
C29_DotsInsideCells ==
  (geom.pitch >= 1 /\ tftW >= LED_MATRIX_W /\ tftH - statusBarH >= LED_MATRIX_H) =>
    LET x0 == renderX0(tftW, geom.sprW)
        y0 == renderY0(tftH, statusBarH, geom.sprH)
    IN /\ geom.inset >= 0
       /\ geom.dot >= 1
       /\ geom.inset + geom.dot <= geom.pitch
       /\ \A x \in Cols :
            /\ DotEdge(x0, x) >= x0 + x * geom.pitch
            /\ DotEdge(x0, x) + geom.dot <= x0 + (x + 1) * geom.pitch
            /\ DotEdge(x0, x) >= 0
            /\ DotEdge(x0, x) + geom.dot <= tftW
            /\ x + 1 \in Cols => DotEdge(x0, x) + geom.dot <= DotEdge(x0, x + 1)
       /\ \A y \in Rows :
            /\ DotEdge(y0, y) >= y0 + y * geom.pitch
            /\ DotEdge(y0, y) + geom.dot <= y0 + (y + 1) * geom.pitch
            /\ DotEdge(y0, y) >= 0
            /\ DotEdge(y0, y) + geom.dot <= tftH - statusBarH
            /\ y + 1 \in Rows => DotEdge(y0, y) + geom.dot <= DotEdge(y0, y + 1)

C29_Witness ==
  /\ lastOp = "render"
  /\ tftW = TFT_W
  /\ tftH = TFT_H
  /\ statusBarH = STATUS_BAR_H
  /\ geom.pitch = 5
  /\ geom.dot = 3
  /\ geom.inset = 1
  /\ DotEdge(renderY0(tftH, statusBarH, geom.sprH), LED_MATRIX_H - 1) + geom.dot = 174

\* C30: once the time string has stopped changing, at most N more drawFrame
\* calls draw a transition: every call after them draws all positions by
\* the static path, leaves only the values 0 and 255 and, from the second
\* such call on, the same framebuffer as the call before; when drawFrame
\* calls keep occurring, every started transition completes and the frames
\* stay static from some call on.
C30_TransitionsComplete ==
  /\ [][(Tick /\ call.ticks >= MORPH_STEPS) =>
          /\ drawnBy' = AllStatic
          /\ OnlyOffOrFull(fb')
          /\ fb' = StaticFrame(currT)
          /\ call.ticks >= MORPH_STEPS + 1 => fb' = call.frame]_vars
  /\ []<>(pc = "render") =>
       <>[](pc = "render" => (drawnBy = AllStatic /\ morphStep = MORPH_STEPS /\ fb = call.frame))

C30_Witness ==
  /\ pc = "render"
  /\ call.ticks = MORPH_STEPS + 1
  /\ currT = T130000
  /\ prevT = T125959
  /\ drawnBy = AllStatic
  /\ fb = StaticFrame(T130000)

====
